---------------------------- MODULE Spec2Model ----------------------------
(***************************************************************************)
(* Ridge regression leave-one-out cross-validation (LOOCV) notebooks.       *)
(*                                                                         *)
(* The notebooks compute with IEEE doubles; this development computes with  *)
(* exact rationals of unbounded size (numerator and denominator are         *)
(* arbitrary-precision integers kept as limb sequences), extended with the  *)
(* two IEEE outcomes of a division by zero, "inf" and "nan".  Rounding is   *)
(* therefore abstracted: equalities checked here are exact identities.      *)
(***************************************************************************)
EXTENDS Integers, Sequences, FiniteSets, TLC

(***************************************************************************)
(* Arbitrary-precision naturals: little-endian limb sequences, no leading   *)
(* zero limb, zero is the empty sequence.                                   *)
(***************************************************************************)
\* limb radix of the number representation
Base == 100 * 100

\* [F(1), ..., F(n)] as a sequence whose entries are computed once
SeqOf(F(_), n) == [i \in 1..n |-> F(i)] \o << >>

\* limb i of a, 0 above its most significant limb
LimbAt(a, i) == IF i <= Len(a) THEN a[i] ELSE 0

\* the position of the most significant non-zero limb, 0 when there is none
TopLimb(a) ==
    IF \A i \in 1..Len(a) : a[i] = 0 THEN 0
    ELSE IF a[Len(a)] # 0 THEN Len(a)
    ELSE CHOOSE i \in 1..Len(a) : a[i] # 0 /\ \A j \in (i + 1)..Len(a) : a[j] = 0
NTrim(a) == SubSeq(a, 1, TopLimb(a))

\* Limb sums s[i] in 0..2*Base-2: a carry enters limb i when the nearest
\* lower limb that is not Base-1 is at least Base.
CarryInto(s, i) ==
    /\ i > 1
    /\ \/ s[i - 1] >= Base
       \/ /\ s[i - 1] = Base - 1
          /\ \E j \in 1..(i - 2) : s[j] >= Base /\ \A k \in (j + 1)..(i - 1) : s[k] = Base - 1
NCarry(s) ==
    NTrim(SeqOf(LAMBDA i : (s[i] + (IF CarryInto(s, i) THEN 1 ELSE 0)) % Base, Len(s)))

NAdd(a, b) ==
    NCarry(SeqOf(LAMBDA i : LimbAt(a, i) + LimbAt(b, i),
                 (IF Len(a) >= Len(b) THEN Len(a) ELSE Len(b)) + 1))

\* Limb differences d[i] in -(Base-1)..Base-1: a borrow enters limb i when the
\* nearest lower non-zero limb is negative.
BorrowInto(d, i) ==
    /\ i > 1
    /\ \/ d[i - 1] < 0
       \/ /\ d[i - 1] = 0
          /\ \E j \in 1..(i - 2) : d[j] < 0 /\ \A k \in (j + 1)..(i - 1) : d[k] = 0
NBorrow(d) ==
    NTrim(SeqOf(LAMBDA i : (d[i] - (IF BorrowInto(d, i) THEN 1 ELSE 0) + Base) % Base, Len(d)))

\* a - b for a >= b
NSub(a, b) == NBorrow(SeqOf(LAMBDA i : a[i] - LimbAt(b, i), Len(a)))

\* a * d for a single limb d
NMulD(a, d) ==
    NCarry(SeqOf(LAMBDA i : ((LimbAt(a, i) * d) % Base)
                            + (IF i = 1 THEN 0 ELSE (a[i - 1] * d) \div Base),
                 Len(a) + 1))

\* a * Base^m
NShift(a, m) == IF a = << >> THEN a ELSE SeqOf(LAMBDA i : 0, m) \o a

RECURSIVE NMul(_, _)
NMul(a, b) ==
    IF a = << >> \/ b = << >> THEN << >>
    ELSE IF Len(b) = 1 THEN (IF b[1] = 1 THEN a ELSE NMulD(a, b[1]))
    ELSE IF Len(a) = 1 THEN (IF a[1] = 1 THEN b ELSE NMulD(b, a[1]))
    ELSE NAdd(NMul(a, NTrim(SubSeq(b, 1, Len(b) \div 2))),
              NShift(NMul(a, SubSeq(b, (Len(b) \div 2) + 1, Len(b))), Len(b) \div 2))

\* -1, 0, 1 as a < b, a = b, a > b
NCmpAt(a, b, i) == IF a[i] < b[i] THEN -1 ELSE 1
NCmp(a, b) ==
    IF Len(a) # Len(b) THEN (IF Len(a) < Len(b) THEN -1 ELSE 1)
    ELSE IF a = b THEN 0
    ELSE NCmpAt(a, b, CHOOSE i \in 1..Len(a) :
                          a[i] # b[i] /\ \A j \in (i + 1)..Len(a) : a[j] = b[j])

\* a natural below Base^3 as limbs
NFromNat(k) == NTrim(<<k % Base, (k \div Base) % Base, k \div (Base * Base)>>)

(***************************************************************************)
(* Integers: <<sign, magnitude>>, sign in {-1, 0, 1}.                       *)
(***************************************************************************)
ZFromInt(k) == IF k = 0 THEN <<0, << >> >>
               ELSE IF k < 0 THEN <<-1, NFromNat(-k)>> ELSE <<1, NFromNat(k)>>
ZNeg(a) == <<-a[1], a[2]>>
ZMul(a, b) == IF a[1] = 0 \/ b[1] = 0 THEN <<0, << >> >>
              ELSE <<a[1] * b[1], NMul(a[2], b[2])>>
ZAdd(a, b) ==
    IF a[1] = 0 THEN b
    ELSE IF b[1] = 0 THEN a
    ELSE IF a[1] = b[1] THEN <<a[1], NAdd(a[2], b[2])>>
    ELSE LET c == NCmp(a[2], b[2])
         IN  IF c = 0 THEN <<0, << >> >>
             ELSE IF c > 0 THEN <<a[1], NSub(a[2], b[2])>>
             ELSE <<b[1], NSub(b[2], a[2])>>

(***************************************************************************)
(* Rationals: <<numerator (integer), denominator (positive natural)>>.      *)
(* Representations are not reduced; REq and RLt compare by cross products.  *)
(***************************************************************************)
NOne == <<1>>

\* a \div d for a divisor d of the radix that divides a
NDivBy(a, d) ==
    NTrim(SeqOf(LAMBDA i : (a[i] \div d) + ((Base \div d) * (LimbAt(a, i + 1) % d)), Len(a)))

\* The largest power of 2 (of 5) up to the fourth that divides the limb x.
Pow2(x) == CASE x % 16 = 0 -> 16 [] x % 16 = 8 -> 8 [] x % 8 = 4 -> 4
             [] x % 4 = 2 -> 2 [] x % 2 = 1 -> 1
Pow5(x) == CASE x % 625 = 0 -> 625
             [] x % 625 # 0 /\ x % 125 = 0 -> 125
             [] x % 125 # 0 /\ x % 25 = 0 -> 25
             [] x % 25 # 0 /\ x % 5 = 0 -> 5
             [] x % 5 # 0 -> 1
Least(m, n) == IF m <= n THEN m ELSE n

\* The same rational with a common factor of numerator and denominator
\* removed: the largest divisor of the radix that divides both (the lowest
\* limbs decide, since the factor divides the radix).
RLowerBy(a, d) == IF d = 1 THEN a ELSE <<<<a[1][1], NDivBy(a[1][2], d)>>, NDivBy(a[2], d)>>
RLower(a) ==
    IF a[1][1] = 0 THEN a
    ELSE RLowerBy(a, Least(Pow2(a[1][2][1]), Pow2(a[2][1])) * Least(Pow5(a[1][2][1]), Pow5(a[2][1])))

RFromInt(k) == <<ZFromInt(k), NOne>>
RFrac(k, d) == <<ZFromInt(k), NFromNat(d)>>
RZero == RFromInt(0)
ROne == RFromInt(1)
RSign(a) == a[1][1]
RNeg(a) == <<ZNeg(a[1]), a[2]>>
RAdd(a, b) ==
    IF a[1][1] = 0 THEN b
    ELSE IF b[1][1] = 0 THEN a
    ELSE IF a[2] = b[2] THEN <<ZAdd(a[1], b[1]), a[2]>>
    ELSE RLower(<<ZAdd(ZMul(a[1], <<1, b[2]>>), ZMul(b[1], <<1, a[2]>>)), NMul(a[2], b[2])>>)
RSub(a, b) == RAdd(a, RNeg(b))
RMul(a, b) == IF a[1][1] = 0 \/ b[1][1] = 0 THEN RZero
              ELSE RLower(<<ZMul(a[1], b[1]), NMul(a[2], b[2])>>)
\* a / b for b # 0
RDiv(a, b) == IF a[1][1] = 0 THEN RZero
              ELSE IF a[2] = b[2] THEN RLower(<<<<a[1][1] * b[1][1], a[1][2]>>, b[1][2]>>)
              ELSE RLower(<<<<a[1][1] * b[1][1], NMul(a[1][2], b[2])>>, NMul(a[2], b[1][2])>>)
RAbs(a) == <<<<a[1][1] * a[1][1], a[1][2]>>, a[2]>>
RCmp(a, b) == RSign(RSub(a, b))
REq(a, b) == RCmp(a, b) = 0
RLt(a, b) == RCmp(a, b) < 0
RLe(a, b) == RCmp(a, b) <= 0

(***************************************************************************)
(* Dense linear algebra (numpy): a vector is a sequence of rationals, a     *)
(* matrix a sequence of rows.  A matrix with no rows keeps its column       *)
(* count p as an argument, as numpy keeps the shape (0, p).                 *)
(***************************************************************************)
RECURSIVE RSumOf(_, _)
RSumOf(F(_), n) == IF n = 0 THEN RZero ELSE RAdd(RSumOf(F, n - 1), F(n))

\* The operations take their operands as values: the CASE guard of each, on
\* the shapes numpy requires, evaluates the operands before the result.
\* np.dot of two vectors
Dot(u, v) ==
    CASE Len(u) = Len(v) -> RSumOf(LAMBDA k : RMul(u[k], v[k]), Len(u))
\* np.dot(M, v) for a matrix M and a vector v
MatVec(M, v) ==
    CASE Len(M) >= 0 /\ Len(v) >= 0 -> SeqOf(LAMBDA i : Dot(M[i], v), Len(M))
\* np.dot(M.T, v) for an n x p matrix M and a length-n vector v
TMatVec(M, v, p) ==
    CASE Len(M) = Len(v) ->
        SeqOf(LAMBDA j : RSumOf(LAMBDA k : RMul(M[k][j], v[k]), Len(M)), p)
\* np.dot(M.T, M) for an n x p matrix M
Gram(M, p) ==
    CASE Len(M) >= 0 ->
        SeqOf(LAMBDA i : SeqOf(LAMBDA j :
            RSumOf(LAMBDA k : RMul(M[k][i], M[k][j]), Len(M)), p), p)
\* np.dot(A, B) for B with cols columns
MatMul(A, B, cols) ==
    CASE Len(A) >= 0 /\ Len(B) >= 0 ->
        SeqOf(LAMBDA i : SeqOf(LAMBDA j :
            RSumOf(LAMBDA k : RMul(A[i][k], B[k][j]), Len(B)), cols), Len(A))
MatAdd(A, B) ==
    CASE Len(A) = Len(B) ->
        SeqOf(LAMBDA i : SeqOf(LAMBDA j : RAdd(A[i][j], B[i][j]), Len(A[i])), Len(A))
\* a bug: nothing is removed
DeleteNone(s, i) == s
\* np.delete(v, i) / np.delete(M, i, 0): the sequence without its i-th entry
Delete(s, i) == SubSeq(s, 1, i - 1) \o SubSeq(s, i + 1, Len(s))
\* np.identity(p) * x
ScaledIdentity(p, x) == SeqOf(LAMBDA i : SeqOf(LAMBDA j : IF i = j THEN x ELSE RZero, p), p)
\* np.diag(v)
Diag(v) == SeqOf(LAMBDA i : SeqOf(LAMBDA j : IF i = j THEN v[i] ELSE RZero, Len(v)), Len(v))

Minor(A, i, j) == SeqOf(LAMBDA r : Delete(A[IF r < i THEN r ELSE r + 1], j), Len(A) - 1)

RECURSIVE Det(_)
Det(A) ==
    IF Len(A) = 1 THEN A[1][1]
    ELSE RSumOf(LAMBDA j :
                 IF RSign(A[1][j]) = 0 THEN RZero
                 ELSE LET t == RMul(A[1][j], Det(Minor(A, 1, j)))
                      IN  IF j % 2 = 1 THEN t ELSE RNeg(t), Len(A))

Cofactor(A, i, j) ==
    IF Len(A) = 1 THEN ROne
    ELSE LET d == Det(Minor(A, i, j))
         IN  IF (i + j) % 2 = 0 THEN d ELSE RNeg(d)

\* np.linalg.inv(A): raises LinAlgError("Singular matrix") when the
\* factorization meets a zero pivot, which in exact arithmetic is det(A) = 0.
Singular(A) == RSign(Det(A)) = 0
LinAlgError == [k |-> "LinAlgError", v |-> RZero]
Adjugate(A, d) ==
    CASE RSign(d) # 0 ->
        SeqOf(LAMBDA i : SeqOf(LAMBDA j : RDiv(Cofactor(A, j, i), d), Len(A)), Len(A))
inv(A) == Adjugate(A, Det(A))

(***************************************************************************)
(* Float results: a finite number, or the IEEE outcome of a division by     *)
(* zero.  [k |-> "num", v |-> r] is the number r; [k |-> "inf", v |-> s]    *)
(* is the infinity of sign s (v = 1 or v = -1); [k |-> "nan"] is not a      *)
(* number.  A raised exception is a record of the same shape, k its type.   *)
(***************************************************************************)
Num(r) == [k |-> "num", v |-> r]
Inf(s) == [k |-> "inf", v |-> RFromInt(s)]
NaN == [k |-> "nan", v |-> RZero]
IsNum(a) == a.k = "num"
\* a guarded division: a zero divisor gives 0
FDivGuarded(r, d) == IF RSign(d) # 0 THEN Num(RDiv(r, d)) ELSE Num(RZero)
\* x / d elementwise in numpy: r/0 is +-inf, 0/0 is nan (a warning, no exception)
FDiv(r, d) ==
    IF RSign(d) # 0 THEN Num(RDiv(r, d))
    ELSE IF RSign(r) # 0 THEN Inf(RSign(r))
    ELSE NaN
FSquare(a) ==
    IF a.k = "num" THEN Num(RMul(a.v, a.v))
    ELSE IF a.k = "inf" THEN Inf(1)
    ELSE NaN
FAdd(a, b) ==
    IF a.k = "nan" \/ b.k = "nan" THEN NaN
    ELSE IF a.k = "inf" /\ b.k = "inf" THEN (IF a.v = b.v THEN a ELSE NaN)
    ELSE IF a.k = "inf" THEN a
    ELSE IF b.k = "inf" THEN b
    ELSE Num(RAdd(a.v, b.v))
FNeg(a) == IF a.k = "nan" THEN NaN ELSE [k |-> a.k, v |-> RNeg(a.v)]
FSub(a, b) == FAdd(a, FNeg(b))
\* a / r for a rational r > 0
FScale(a, r) == IF a.k = "num" THEN Num(RDiv(a.v, r)) ELSE a
\* a < 0 (False for nan)
FNegative(a) == a.k # "nan" /\ RSign(a.v) < 0
\* np.abs(a) > r (False for nan)
FAbsGreater(a, r) == a.k = "inf" \/ (a.k = "num" /\ RLt(r, RAbs(a.v)))
FEq(a, b) == a.k = b.k /\ a.k # "nan" /\ REq(a.v, b.v)
RECURSIVE FSumTo(_, _)
FSumTo(v, k) == IF k = 0 THEN Num(RZero) ELSE FAdd(FSumTo(v, k - 1), v[k])
\* np.sum(v)
FSum(v) == FSumTo(v, Len(v))

(***************************************************************************)
(* The estimators.  D is the matrix added to X^T X: np.dot(Gamma.T, Gamma)  *)
(* in the LOOCV notebooks, D itself in the simulation notebook.             *)
(***************************************************************************)
\* A = np.dot(X.T, X) + D
RegularizedGram(Xm, D, p) == MatAdd(Gram(Xm, p), D)

\* a bug: A_inv is left out of the quadratic form
LeverageNoInverse(Xm, A_inv) ==
    CASE Len(A_inv) >= 0 -> SeqOf(LAMBDA i : Dot(Xm[i], Xm[i]), Len(Xm))

\* h = np.array([np.dot(x_i, np.dot(A_inv, x_i)) for x_i in X])
Leverage(Xm, A_inv) ==
    CASE Len(A_inv) >= 0 ->
        SeqOf(LAMBDA i : Dot(Xm[i], MatVec(A_inv, Xm[i])), Len(Xm))

\* a bug: the residuals are not divided by 1 - h
EfficientTermsNoLeverage(yv, y_hat, h) ==
    SeqOf(LAMBDA i : FSquare(Num(RSub(yv[i], y_hat[i]))), Len(yv))

\* ((y - y_hat) / (1 - h))**2, elementwise
EfficientTerms(yv, y_hat, h) ==
    SeqOf(LAMBDA i : FSquare(FDiv(RSub(yv[i], y_hat[i]), RSub(ROne, h[i]))), Len(yv))

\* The efficient estimator from A_inv on: b_hat, y_hat, h and the sum
\* np.sum(((y - y_hat) / (1 - h))**2), kept together with the leverages h.
\* Each statement's value is computed before the next statement runs: the
\* CASE guards, on the shapes numpy requires, evaluate it.
EfficientSum(yv, y_hat, h) ==
    CASE Len(y_hat) = Len(yv) /\ Len(h) = Len(yv) ->
        [val |-> FSum(EfficientTerms(yv, y_hat, h)), h |-> h]
EfficientFit(Xm, yv, A_inv, b_hat) ==
    CASE Len(b_hat) = Len(A_inv) ->
        EfficientSum(yv, MatVec(Xm, b_hat), Leverage(Xm, A_inv))
EfficientSolve(Xm, yv, A_inv, p) ==
    CASE Len(A_inv) = p ->
        EfficientFit(Xm, yv, A_inv, MatVec(A_inv, TMatVec(Xm, yv, p)))

\* The body shared by every efficient estimator, for the regularized matrix
\* A: LinAlgError when np.linalg.inv(A) raises.
EfficientOf(Xm, yv, A, p) ==
    IF Singular(A) THEN [val |-> LinAlgError, h |-> << >>]
    ELSE EfficientSolve(Xm, yv, inv(A), p)
Efficient(Xm, yv, D, p) ==
    CASE Len(D) = p -> EfficientOf(Xm, yv, RegularizedGram(Xm, D, p), p)

\* a bug: the error is accumulated without being squared
SignedError(y_i, y_hat_i) == Num(RSub(y_i, y_hat_i))

\* (y_i - y_hat_i)**2 for y_hat_i = np.dot(x_i, b_hat_mi)
SquaredError(y_i, y_hat_i) == Num(RMul(RSub(y_i, y_hat_i), RSub(y_i, y_hat_i)))

\* one iteration of the brute-force loop for the reduced system A_mi:
\* LinAlgError, or (y_i - y_hat_i)**2
BruteForceSolve(x_i, y_i, X_mi, y_mi, A_mi, p) ==
    IF Singular(A_mi) THEN LinAlgError
    ELSE SquaredError(y_i, Dot(x_i, MatVec(inv(A_mi), TMatVec(X_mi, y_mi, p))))
BruteForceReduced(x_i, y_i, X_mi, y_mi, D, p) ==
    BruteForceSolve(x_i, y_i, X_mi, y_mi, RegularizedGram(X_mi, D, p), p)
BruteForceTerm(Xm, yv, D, p, i) ==
    BruteForceReduced(Xm[i], yv[i], Delete(Xm, i), Delete(yv, i), D, p)

\* the loop of compute_loocv_slow: the first singular reduced system raises
RECURSIVE BruteForceLoop(_, _, _, _, _, _)
BruteForceNext(Xm, yv, D, p, i, result, t) ==
    IF t.k = "LinAlgError" THEN t
    ELSE BruteForceLoop(Xm, yv, D, p, i + 1, RAdd(result, t.v))
BruteForceLoop(Xm, yv, D, p, i, result) ==
    IF i > Len(yv) THEN Num(result)
    ELSE BruteForceNext(Xm, yv, D, p, i, result, BruteForceTerm(Xm, yv, D, p, i))

\* the iterations the loop runs, each with what it held out (i), the matrix
\* it passed to np.linalg.inv and its term: all of range(len(y)), or those
\* up to the one whose inversion raises
RECURSIVE BruteForceIterations(_, _, _, _, _)
BruteForceIteration(Xm, D, p, i, t) ==
    [i |-> i, inverted |-> RegularizedGram(Delete(Xm, i), D, p), term |-> t]
BruteForceIterationsNext(Xm, yv, D, p, i, t) ==
    IF t.k = "LinAlgError" THEN <<BruteForceIteration(Xm, D, p, i, t)>>
    ELSE <<BruteForceIteration(Xm, D, p, i, t)>> \o BruteForceIterations(Xm, yv, D, p, i + 1)
BruteForceIterations(Xm, yv, D, p, i) ==
    IF i > Len(yv) THEN << >>
    ELSE BruteForceIterationsNext(Xm, yv, D, p, i, BruteForceTerm(Xm, yv, D, p, i))
\* the matrices the efficient estimator passes to np.linalg.inv
EfficientInverted(Xm, D, p) == <<RegularizedGram(Xm, D, p)>>

\* np.dot(Gamma.T, Gamma)
GammaSquared(G) == MatMul(SeqOf(LAMBDA i : SeqOf(LAMBDA j : G[j][i], Len(G)), Len(G)), G, Len(G))

\* compute_loocv_slow(X, y, Gamma): return result
compute_loocv_slow(Xm, yv, G) ==
    BruteForceLoop(Xm, yv, GammaSquared(G), Len(G), 1, RZero)

\* compute_loocv(X, y, Gamma) of the first LOOCV notebook
compute_loocv_sum(Xm, yv, G) == Efficient(Xm, yv, GammaSquared(G), Len(G))

\* compute_loocv_brute_force(X, y, Gamma): return result / len(y)
compute_loocv_brute_force(Xm, yv, G) ==
    FScale(BruteForceLoop(Xm, yv, GammaSquared(G), Len(G), 1, RZero), RFromInt(Len(yv)))

\* compute_loocv_efficient(X, y, Gamma): return np.sum(...) / len(y)
MeanOf(r, n) == [val |-> FScale(r.val, RFromInt(n)), h |-> r.h]
compute_loocv_efficient(Xm, yv, G) ==
    MeanOf(Efficient(Xm, yv, GammaSquared(G), Len(G)), Len(yv))

(***************************************************************************)
(* Inputs.  The notebooks draw X, beta, the noise and the diagonal of       *)
(* Gamma from a seeded generator; here a draw is any value of a small set.  *)
(***************************************************************************)
MaxN == 3
XRows == {<<1, 0>>, <<0, 1>>, <<1, 1>>}
YValues == {-1, 0, 1}
GammaDiagonals == {<<0, 0>>, <<1, 0>>, <<2, 1>>}

RVec(v) == SeqOf(LAMBDA i : RFromInt(v[i]), Len(v))
RMat(M) == SeqOf(LAMBDA i : RVec(M[i]), Len(M))

None == [k |-> "none", v |-> RZero]

VARIABLES
    X, y, Gamma,   \* the data of the generation cell
    nb,            \* which of the two LOOCV notebooks is run
    pc,            \* the next cell to execute, "done", or "failed" after a raise
    out,           \* what each estimator returned
    h,             \* the leverages computed by the last efficient estimator call
    rotation_matrix, \* the matrix generate_rotation_matrix returned
    alpha          \* the regularization parameter a function is called with

\* The simulation notebook's globals.
VARIABLES
    train_sizes, N,     \* the simulation parameters
    rng,                \* the state of numpy's global random generator
    trial_index,        \* the counter of the generation loop
    simulation_data,    \* per training size, its list of (trial_index, data)
    trials,             \* the list the generation loop is filling
    rr1_params,         \* the rows np.loadtxt read, index 0 first
    rrp_params,
    at,                 \* the position of the running loop: <<size, trial, ...>>
    errors,             \* the errors of the current size and model
    simulation_results, \* per model name, its lists 'mean' and 'error_bar'
    first_run           \* what a first run of the notebook ended with

simVars == <<train_sizes, N, rng, trial_index, simulation_data, trials,
             rr1_params, rrp_params, at, errors, simulation_results, first_run>>

vars == <<X, y, Gamma, nb, pc, out, h, rotation_matrix, alpha, simVars>>

\* no simulation in this notebook
NoSimulation ==
    /\ train_sizes = << >> /\ N = 0 /\ rng = 0 /\ trial_index = 0
    /\ simulation_data = << >> /\ trials = << >>
    /\ rr1_params = << >> /\ rrp_params = << >>
    /\ at = << >> /\ errors = << >> /\ simulation_results = << >>
    /\ first_run = << >>

\* the variables the two LOOCV notebooks do not have
beyondLoocv == <<rotation_matrix, alpha, simVars>>

NoOut == [slow |-> None, fast |-> None, bf |-> None, eff |-> None]

Init ==
    /\ \E n \in 1..MaxN : X \in [1..n -> XRows] /\ y \in [1..n -> YValues]
    /\ \E g \in GammaDiagonals : Gamma = Diag(RVec(g))
    /\ nb \in {1, 2}
    /\ pc = "brute_force"
    /\ out = NoOut
    /\ h = << >>
    /\ rotation_matrix = << >>
    /\ alpha = None
    /\ NoSimulation

Raised(r) == r.k = "LinAlgError"

\* a cell that evaluated to r: the value is kept; a raise ends the run
Returned(field, r, next) ==
    /\ out' = [out EXCEPT ![field] = r]
    /\ pc' = IF Raised(r) THEN "failed" ELSE next
    /\ UNCHANGED beyondLoocv

\* notebook 1, cell 4: compute_loocv_slow(X, y, Gamma)
CellSlow ==
    /\ nb = 1 /\ pc = "brute_force"
    /\ Returned("slow", compute_loocv_slow(RMat(X), RVec(y), Gamma), "efficient")
    /\ UNCHANGED <<X, y, Gamma, nb, h>>

ReturnedWithLeverage(field, r, next) ==
    /\ Returned(field, r.val, next)
    /\ h' = r.h

\* notebook 1, cell 5: compute_loocv(X, y, Gamma)
CellFast ==
    /\ nb = 1 /\ pc = "efficient"
    /\ ReturnedWithLeverage("fast", compute_loocv_sum(RMat(X), RVec(y), Gamma), "done")
    /\ UNCHANGED <<X, y, Gamma, nb>>

\* notebook 2, cell 5, first argument of the print: compute_loocv_brute_force
CellBruteForce ==
    /\ nb = 2 /\ pc = "brute_force"
    /\ Returned("bf", compute_loocv_brute_force(RMat(X), RVec(y), Gamma), "efficient")
    /\ UNCHANGED <<X, y, Gamma, nb, h>>

\* notebook 2, cell 5, second argument of the print: compute_loocv_efficient
CellEfficient ==
    /\ nb = 2 /\ pc = "efficient"
    /\ ReturnedWithLeverage("eff", compute_loocv_efficient(RMat(X), RVec(y), Gamma), "done")
    /\ UNCHANGED <<X, y, Gamma, nb>>

Next == CellSlow \/ CellFast \/ CellBruteForce \/ CellEfficient

Spec == Init /\ [][Next]_vars

(***************************************************************************)
(* Properties of the two LOOCV notebooks (specification Spec).              *)
(***************************************************************************)
Fields == {"slow", "fast", "bf", "eff"}
\* Gamma^T Gamma is positive definite: every diagonal entry of Gamma is non-zero
GammaPositiveDefinite == \A i \in 1..Len(Gamma) : RSign(Gamma[i][i]) # 0

\* C1: whenever a notebook ran to its end, that is X^T X + Gamma^T Gamma and
\* every leave-one-out system were invertible, the brute-force and the
\* efficient estimator returned the same finite number: compute_loocv_slow
\* and compute_loocv in the sum form, compute_loocv_brute_force and
\* compute_loocv_efficient in the mean form.
EquivalenceLaw ==
    pc = "done" =>
        /\ nb = 1 => IsNum(out.slow) /\ FEq(out.slow, out.fast)
        /\ nb = 2 => IsNum(out.bf) /\ FEq(out.bf, out.eff)

\* both estimators returned a non-zero score for three observations, one of
\* them with positive leverage
EquivalenceLawWitness ==
    /\ pc = "done" /\ nb = 2 /\ Len(y) = 3
    /\ IsNum(out.bf) /\ RSign(out.bf.v) > 0 /\ FEq(out.bf, out.eff)
    /\ \E i \in 1..Len(h) : RSign(h[i]) > 0

\* C2: with Gamma^T Gamma positive definite, every leverage h_i the efficient
\* estimator computed satisfies 0 <= h_i < 1, so 1 - h_i is not zero.
LeverageBound ==
    GammaPositiveDefinite =>
        \A i \in 1..Len(h) : RSign(h[i]) >= 0 /\ RLt(h[i], ROne)

\* leverages were computed under a positive definite Gamma^T Gamma and one of
\* them is strictly between 0 and 1
LeverageBoundWitness ==
    /\ GammaPositiveDefinite /\ Len(h) = 3
    /\ \E i \in 1..Len(h) : RSign(h[i]) > 0 /\ RLt(h[i], ROne)

\* C3: every score an estimator returned as a finite number is >= 0, in the
\* sum form and in the mean form.
NonNegativity ==
    \A f \in Fields : IsNum(out[f]) => RSign(out[f].v) >= 0

\* all four estimators' cases: a run returned a strictly positive score from
\* the brute-force estimator with an observation whose target is negative
NonNegativityWitness ==
    /\ pc = "done" /\ nb = 1
    /\ IsNum(out.slow) /\ RSign(out.slow.v) > 0 /\ IsNum(out.fast)
    /\ \E i \in 1..Len(y) : y[i] < 0

(***************************************************************************)
(* The rotation notebook.  theta = np.random.uniform() * 2 * np.pi is any   *)
(* angle in [0, 2 pi); the angles drawn here are those of Thetas, each      *)
(* given by its exact cosine and sine as <<c, s, d>> for (c/d, s/d).        *)
(***************************************************************************)
\* theta = 0, theta = pi, theta = atan(4/3)
Thetas == {<<1, 0, 1>>, <<-1, 0, 1>>, <<3, 4, 5>>}
RotationXRows == {<<1, 0>>, <<1, 1>>}
RotationYValues == {0, 1}
RotationGammaDiagonals == {<<2, 1>>}

Cos(t) == RFrac(t[1], t[3])
Sin(t) == RFrac(t[2], t[3])

\* a bug: rotation[i+1, i+1] = np.sin(theta)
RotationCosTypo(n, i, t) ==
    SeqOf(LAMBDA r : SeqOf(LAMBDA c :
        IF r = i /\ c = i THEN Cos(t)
        ELSE IF r = i /\ c = i + 1 THEN RNeg(Sin(t))
        ELSE IF r = i + 1 /\ c = i THEN Sin(t)
        ELSE IF r = i + 1 /\ c = i + 1 THEN Sin(t)
        ELSE IF r = c THEN ROne ELSE RZero, n), n)

\* rotation = np.identity(n) with the four entries of rows i, i+1 set
\* (i counts from 1 here)
Rotation(n, i, t) ==
    SeqOf(LAMBDA r : SeqOf(LAMBDA c :
        IF r = i /\ c = i THEN Cos(t)
        ELSE IF r = i /\ c = i + 1 THEN RNeg(Sin(t))
        ELSE IF r = i + 1 /\ c = i THEN Sin(t)
        ELSE IF r = i + 1 /\ c = i + 1 THEN Cos(t)
        ELSE IF r = c THEN ROne ELSE RZero, n), n)

\* for i in range(n-1): result = np.dot(result, rotation)
RECURSIVE RotationLoop(_, _, _, _)
RotationLoop(n, thetas, i, result) ==
    IF i > n - 1 THEN result
    ELSE RotationLoop(n, thetas, i + 1, MatMul(result, Rotation(n, i, thetas[i]), n))

\* generate_rotation_matrix(n), thetas the n - 1 angles it draws
generate_rotation_matrix(n, thetas) ==
    RotationLoop(n, thetas, 1, ScaledIdentity(n, ROne))

\* compute_loocv(X, y, Gamma) of the rotation notebook
compute_loocv_gamma(Xm, yv, G) ==
    FScale(Efficient(Xm, yv, GammaSquared(G), Len(G)).val, RFromInt(Len(yv)))

NoRotationOut == [loocv |-> None, loocv_rotated |-> None]

InitRotation ==
    /\ \E n \in 1..MaxN : X \in [1..n -> RotationXRows] /\ y \in [1..n -> RotationYValues]
    /\ \E g \in RotationGammaDiagonals : Gamma = Diag(RVec(g))
    /\ nb = 3
    /\ pc = "rotation"
    /\ out = NoRotationOut
    /\ h = << >>
    /\ rotation_matrix = << >>
    /\ alpha = None
    /\ NoSimulation

\* cell 3: rotation_matrix = generate_rotation_matrix(n)
CellRotation ==
    /\ nb = 3 /\ pc = "rotation"
    /\ \E thetas \in [1..(Len(y) - 1) -> Thetas] :
           rotation_matrix' = generate_rotation_matrix(Len(y), thetas)
    /\ pc' = "compare"
    /\ UNCHANGED <<X, y, Gamma, nb, out, h, alpha, simVars>>

\* loocv_rotated = compute_loocv(X_prime, y_prime, Gamma)
ComparedRotated(loocv, r) ==
    /\ out' = [loocv |-> loocv, loocv_rotated |-> r]
    /\ pc' = IF Raised(r) THEN "failed" ELSE "done"

\* loocv = compute_loocv(X, y, Gamma), then X_prime and y_prime
Compared(loocv, X_prime, y_prime) ==
    IF Raised(loocv)
    THEN out' = [out EXCEPT !.loocv = loocv] /\ pc' = "failed"
    ELSE ComparedRotated(loocv, compute_loocv_gamma(X_prime, y_prime, Gamma))

\* cell 5
CellCompare ==
    /\ nb = 3 /\ pc = "compare"
    /\ Compared(compute_loocv_gamma(RMat(X), RVec(y), Gamma),
                MatMul(rotation_matrix, RMat(X), Len(Gamma)),
                MatVec(rotation_matrix, RVec(y)))
    /\ UNCHANGED <<X, y, Gamma, nb, h, rotation_matrix, alpha, simVars>>

NextRotation == CellRotation \/ CellCompare

SpecRotation == InitRotation /\ [][NextRotation]_vars

(***************************************************************************)
(* Properties of the rotation notebook (specification SpecRotation).        *)
(***************************************************************************)
IsIdentity(R) ==
    \A i, j \in 1..Len(R) : REq(R[i][j], IF i = j THEN ROne ELSE RZero)
IsDiagonal(R) ==
    \A i, j \in 1..Len(R) : i # j => RSign(R[i][j]) = 0
ScoresDiffer == ~FEq(out.loocv, out.loocv_rotated)

\* C4 as stated, and read for a y that is not zero: for n >= 2, every
\* rotation matrix other than the identity changes the score.
RotationSensitivity ==
    (/\ pc = "done" /\ Len(y) >= 2
     /\ ~IsIdentity(rotation_matrix)
     /\ \E i \in 1..Len(y) : y[i] # 0) => ScoresDiffer

\* C4, amended: the score changes only under a rotation matrix that is not
\* diagonal and for a y that is not zero; a diagonal rotation matrix (every
\* angle 0 or pi), the identity or not, leaves the score unchanged.
RotationSensitivityOnlyOffDiagonal ==
    (pc = "done" /\ ScoresDiffer) =>
        /\ ~IsDiagonal(rotation_matrix)
        /\ \E i \in 1..Len(y) : y[i] # 0

\* a rotation changed a finite score
RotationSensitivityWitness ==
    /\ pc = "done" /\ Len(y) >= 2
    /\ IsNum(out.loocv) /\ IsNum(out.loocv_rotated) /\ ScoresDiffer

(***************************************************************************)
(* The simulation notebook: compute_loocv and the two optimum verifiers.    *)
(* A call ends with a record: k is "returned" or the type of the exception  *)
(* raised, args the arguments the exception was constructed with.           *)
(***************************************************************************)
\* delta_x = 1.0e-3
delta_x == RFrac(1, 1000)
\* the 1.0e-3 of `np.abs(relative_delta_y) > 1.0e-3`
SlopeTolerance == RFrac(1, 1000)

ReturnedNone == [k |-> "returned", args |-> << >>]
\* a bug: assert False
AssertionErrorNoMessage == [k |-> "AssertionError", args |-> << >>]
\* assert False, "can't verify optimum"
AssertionError == [k |-> "AssertionError", args |-> <<"can't verify optimum">>]
\* what np.linalg.inv raises
SingularMatrix == [k |-> "LinAlgError", args |-> <<"Singular matrix">>]

\* compute_loocv(X, y, D)
compute_loocv(Xm, yv, D) ==
    FScale(Efficient(Xm, yv, D, Len(D)).val, RFromInt(Len(yv)))

\* a bug: the perturbed parameter is not reflected
PerturbedNoAbs(x, d) == RAdd(x, d)

\* x = np.abs(x) for x = alpha + d
Perturbed(x, d) == RAbs(RAdd(x, d))

\* for x in [alpha - delta_x, alpha + delta_x]: x = np.abs(x): the values of
\* x the loop passes to f, in order
PerturbedPair(x) == <<Perturbed(x, RNeg(delta_x)), Perturbed(x, delta_x)>>

\* relative_delta_y = (f(x) - f0) / delta_x
RelativeDelta(fx, f0) == FScale(FSub(fx, f0), delta_x)

\* a bug: the sign of the slope is not tested
SlopeRejectedEitherSign(rel) == FAbsGreater(rel, SlopeTolerance)

\* a bug: the slope is compared with 1.0 instead of 1.0e-3
SlopeRejectedLoose(rel) == FNegative(rel) /\ FAbsGreater(rel, ROne)

\* relative_delta_y < 0 and np.abs(relative_delta_y) > 1.0e-3
SlopeRejected(rel) == FNegative(rel) /\ FAbsGreater(rel, SlopeTolerance)

\* for x in [...]: the loop over the perturbed points, Ds their matrices
RECURSIVE VerifyPoints(_, _, _, _, _)
VerifyPoint(Xm, yv, f0, Ds, k, fx) ==
    IF Raised(fx) THEN SingularMatrix
    ELSE IF SlopeRejected(RelativeDelta(fx, f0)) THEN AssertionError
    ELSE VerifyPoints(Xm, yv, f0, Ds, k + 1)
VerifyPoints(Xm, yv, f0, Ds, k) ==
    IF k > Len(Ds) THEN ReturnedNone
    ELSE VerifyPoint(Xm, yv, f0, Ds, k, compute_loocv(Xm, yv, Ds[k]))

\* f0 = f(alpha), then the loop
VerifyFrom(Xm, yv, f0, Ds) ==
    IF Raised(f0) THEN SingularMatrix ELSE VerifyPoints(Xm, yv, f0, Ds, 1)

\* verify_loocv_opt_1(X, y, alpha): f(x) is compute_loocv(X, y, identity * x)
verify_loocv_opt_1(Xm, yv, a) ==
    VerifyFrom(Xm, yv, compute_loocv(Xm, yv, ScaledIdentity(Len(Xm[1]), a)),
               <<ScaledIdentity(Len(Xm[1]), PerturbedPair(a)[1]),
                 ScaledIdentity(Len(Xm[1]), PerturbedPair(a)[2])>>)

\* alpha_copy = np.array(alpha); alpha_copy[i] = x; np.diag(alpha_copy)
DiagWith(a, i, x) == Diag([a EXCEPT ![i] = x])

\* verify_loocv_opt_p(X, y, alpha): for i, alpha_i in enumerate(alpha)
RECURSIVE VerifyComponents(_, _, _, _)
VerifyComponent(Xm, yv, a, i, r) ==
    IF r.k # "returned" THEN r ELSE VerifyComponents(Xm, yv, a, i + 1)
VerifyComponents(Xm, yv, a, i) ==
    IF i > Len(a) THEN ReturnedNone
    ELSE VerifyComponent(Xm, yv, a, i,
             VerifyFrom(Xm, yv, compute_loocv(Xm, yv, DiagWith(a, i, a[i])),
                        <<DiagWith(a, i, PerturbedPair(a[i])[1]),
                          DiagWith(a, i, PerturbedPair(a[i])[2])>>))
verify_loocv_opt_p(Xm, yv, a) == VerifyComponents(Xm, yv, a, 1)

(***************************************************************************)
(* The arrays a call can reach.  refs maps a name of the function body to   *)
(* an array, store maps an array to its values; "caller" is the array the   *)
(* caller passed as alpha.                                                  *)
(***************************************************************************)
Called(a) == [refs |-> ("alpha" :> "caller"), store |-> ("caller" :> a)]
\* a bug: name = src, a second name for the array of src
Aliased(m, name, src) ==
    [refs |-> (name :> m.refs[src]) @@ m.refs, store |-> m.store]
\* name = np.array(src): a new array with the values of src
np_array(m, name, src) ==
    [refs |-> (name :> name) @@ m.refs, store |-> (name :> m.store[m.refs[src]]) @@ m.store]
\* name = value: the name is bound to a new array
Bound(m, name, value) ==
    [refs |-> (name :> name) @@ m.refs, store |-> (name :> value) @@ m.store]
\* name[i] = x
SetItem(m, name, i, x) == [m EXCEPT !.store[m.refs[name]][i] = x]

\* f(x) of verify_loocv_opt_p: alpha_copy = np.array(alpha); alpha_copy[i] = x
FStores(m, i, x) == SetItem(np_array(m, "alpha_copy", "alpha"), "alpha_copy", i, x)
\* the calls f(alpha_i), f(|alpha_i - delta_x|), f(|alpha_i + delta_x|) of
\* each component i
RECURSIVE VerifyStores(_, _, _)
VerifyStores(m, a, i) ==
    IF i > Len(a) THEN m
    ELSE VerifyStores(FStores(FStores(FStores(m, i, a[i]),
                                      i, Perturbed(a[i], RNeg(delta_x))),
                              i, Perturbed(a[i], delta_x)), a, i + 1)
\* the caller's alpha after verify_loocv_opt_p(X, y, alpha)
AlphaAfterVerify(a) == VerifyStores(Called(a), a, 1).store["caller"]

(***************************************************************************)
(* fit_ridge_regression.  A parameter is [type, v]: type is the runtime     *)
(* type of the value ("float" for a Python or numpy float, "int" for a      *)
(* Python int, "ndarray" for a row of rrp_params), v the value.             *)
(***************************************************************************)
\* np.diag of a number: ValueError("Input must be 1- or 2-d.")
ValueError == [k |-> "ValueError", args |-> <<"Input must be 1- or 2-d.">>]
ReturnedValue(v) == [k |-> "returned", args |-> <<v>>]
\* a bug: np.ones(p) * 2 * x
OnesDoubled(p, x) == SeqOf(LAMBDA i : RAdd(x, x), p)
\* np.ones(p) * x
Ones(p, x) == SeqOf(LAMBDA i : x, p)

\* a bug: a least-squares solve that does not raise for a singular A
FitSolveNoRaise(Xm, yv, A, p) ==
    IF Singular(A) THEN ReturnedValue(Ones(p, RZero))
    ELSE ReturnedValue(MatVec(inv(A), TMatVec(Xm, yv, p)))

\* A_inv = np.linalg.inv(A); return np.dot(A_inv, np.dot(X.T, y))
FitSolve(Xm, yv, A, p) ==
    IF Singular(A) THEN SingularMatrix
    ELSE ReturnedValue(MatVec(inv(A), TMatVec(Xm, yv, p)))

\* isinstance(alpha, float)
IsFloat(a) == a.type = "float"

\* np.diag(alpha) for the array the name alpha is bound to
FitDiag(m) == Diag(m.store[m.refs["alpha"]])
\* the body from `A = np.dot(X.T, X) + np.diag(alpha)` on, m the arrays
FitFrom(Xm, yv, m, type, p) ==
    IF type = "int" THEN ValueError
    ELSE FitSolve(Xm, yv, RegularizedGram(Xm, FitDiag(m), p), p)
\* if isinstance(alpha, float): alpha = np.ones(X.shape[1])*alpha
FitStores(m, a, p) ==
    IF IsFloat(a) THEN Bound(m, "alpha", Ones(p, m.store[m.refs["alpha"]])) ELSE m
fit_ridge_regression(Xm, yv, a) ==
    FitFrom(Xm, yv, FitStores(Called(a.v), a, Len(Xm[1])),
            IF IsFloat(a) THEN "ndarray" ELSE a.type, Len(Xm[1]))
\* the caller's alpha after fit_ridge_regression(X, y, alpha)
AlphaAfterFit(a, p) == FitStores(Called(a.v), a, p).store["caller"]

(***************************************************************************)
(* Calls of the verifiers as the verification loop makes them: the scalar   *)
(* verifier with a float of rr1_params, the vector verifier with a row of   *)
(* rrp_params.  The parameter values of the model are listed as            *)
(* <<numerator, denominator>>.                                             *)
(***************************************************************************)
MaxTrain == 2
VerifyYValues == {0, 1}
AlphaList == << <<0, 1>>, <<1, 2000>>, <<1, 1000>>, <<1, 1>>, <<100, 1>> >>
AlphaValues == {AlphaList[i] : i \in 1..Len(AlphaList)}
AlphaComponentList == << <<0, 1>>, <<1, 1000>>, <<100, 1>> >>
AlphaVectors == {<<AlphaComponentList[i], AlphaComponentList[j]>> :
                    i, j \in 1..Len(AlphaComponentList)}

RQ(q) == RFrac(q[1], q[2])
RQVec(v) == SeqOf(LAMBDA i : RQ(v[i]), Len(v))

NoCall == [fn |-> "none", k |-> "none", args |-> << >>]

InitVerify ==
    /\ \E n \in 1..MaxTrain : X \in [1..n -> XRows] /\ y \in [1..n -> VerifyYValues]
    /\ \/ \E q \in AlphaValues : alpha = [type |-> "float", v |-> RQ(q)]
       \/ \E v \in AlphaVectors : alpha = [type |-> "ndarray", v |-> RQVec(v)]
    /\ Gamma = << >>
    /\ nb = 4
    /\ pc = "verify"
    /\ out = NoCall
    /\ h = << >>
    /\ rotation_matrix = << >>
    /\ NoSimulation

\* the call of fn ended with r and left the caller's alpha as a; none of
\* the functions stores into X, y or Gamma
Verified(fn, r, a) ==
    /\ out' = [fn |-> fn, k |-> r.k, args |-> r.args]
    /\ pc' = IF r.k = "returned" THEN "done" ELSE "failed"
    /\ alpha' = [alpha EXCEPT !.v = a]
    /\ UNCHANGED <<X, y, Gamma, nb, h, rotation_matrix, simVars>>

\* verify_loocv_opt_1(X_train, y_train, rr1_params[trial_index])
CallVerify1 ==
    /\ nb \in {4, 5} /\ pc = "verify" /\ alpha.type = "float"
    /\ Verified("verify_loocv_opt_1", verify_loocv_opt_1(RMat(X), RVec(y), alpha.v), alpha.v)

\* verify_loocv_opt_p(X_train, y_train, rrp_params[trial_index])
CallVerifyP ==
    /\ nb \in {4, 5} /\ pc = "verify" /\ alpha.type = "ndarray"
    /\ Verified("verify_loocv_opt_p", verify_loocv_opt_p(RMat(X), RVec(y), alpha.v), AlphaAfterVerify(alpha.v))

NextVerify == CallVerify1 \/ CallVerifyP

SpecVerify == InitVerify /\ [][NextVerify]_vars

(***************************************************************************)
(* Properties of the verifiers (specification SpecVerify).  The score of a  *)
(* parameter is that of its diagonal: <<a, a>> for the scalar a.            *)
(***************************************************************************)
Finished == nb = 4 /\ pc \in {"done", "failed"}
Score(av) == compute_loocv(RMat(X), RVec(y), Diag(av))
ParamVector ==
    IF alpha.type = "float" THEN <<alpha.v, alpha.v>> ELSE alpha.v
Moved(x, d) == RAbs(RAdd(x, d))
OneThousandth == RFrac(1, 1000)
\* the parameters the verifier looks at beside alpha: |alpha_i - delta| and
\* |alpha_i + delta| for each component i, the others as they are
PerturbedPoints ==
    IF alpha.type = "float"
    THEN <<<<Moved(alpha.v, RNeg(OneThousandth)), Moved(alpha.v, RNeg(OneThousandth))>>,
           <<Moved(alpha.v, OneThousandth), Moved(alpha.v, OneThousandth)>>>>
    ELSE SeqOf(LAMBDA k :
             [ParamVector EXCEPT ![(k + 1) \div 2] =
                 Moved(ParamVector[(k + 1) \div 2],
                       IF k % 2 = 1 THEN RNeg(OneThousandth) ELSE OneThousandth)],
             2 * Len(alpha.v))
\* the parameters of the model's grid
GridPoints ==
    IF alpha.type = "float"
    THEN SeqOf(LAMBDA i : <<RQ(AlphaList[i]), RQ(AlphaList[i])>>, Len(AlphaList))
    ELSE SeqOf(LAMBDA k :
             <<RQ(AlphaComponentList[((k - 1) \div Len(AlphaComponentList)) + 1]),
               RQ(AlphaComponentList[((k - 1) % Len(AlphaComponentList)) + 1])>>,
             Len(AlphaComponentList) * Len(AlphaComponentList))
Scores(points) == SeqOf(LAMBDA i : Score(points[i]), Len(points))

\* the slope from the score s0 to the score s is negative and steeper than 1e-3
SteepDescent(s, s0) ==
    /\ ~Raised(s) /\ ~Raised(s0)
    /\ FNegative(FScale(FSub(s, s0), OneThousandth))
    /\ FAbsGreater(FScale(FSub(s, s0), OneThousandth), OneThousandth)
SlopeConditionOn(s0, ss) == \E k \in 1..Len(ss) : SteepDescent(ss[k], s0)
SlopeCondition == SlopeConditionOn(Score(ParamVector), Scores(PerturbedPoints))
AllEvaluatedOn(s0, ss) == ~Raised(s0) /\ \A k \in 1..Len(ss) : ~Raised(ss[k])
AllEvaluated == AllEvaluatedOn(Score(ParamVector), Scores(PerturbedPoints))

\* C5 as stated: a verifier raises "can't verify optimum" exactly when some
\* component and direction has a slope that is negative and steeper than
\* 1e-3, and returns normally in every other case.
VerifierFailureCondition ==
    Finished => IF SlopeCondition THEN out.k = "AssertionError" ELSE out.k = "returned"

\* C5, amended: the verifier ends in one of three ways.  It raises "can't
\* verify optimum" only when some component and direction has such a slope;
\* it returns only when none has and every system it evaluated was
\* invertible; it raises LinAlgError only when a system it evaluates is
\* singular.  So when every evaluated system is invertible it raises "can't
\* verify optimum" exactly under the slope condition.
VerifierFailureConditionOn(s0, ss) ==
    /\ out.k \in {"AssertionError", "returned", "LinAlgError"}
    /\ out.k = "AssertionError" => SlopeConditionOn(s0, ss)
    /\ out.k = "returned" => ~SlopeConditionOn(s0, ss) /\ AllEvaluatedOn(s0, ss)
    /\ out.k = "LinAlgError" => ~AllEvaluatedOn(s0, ss)
VerifierFailureConditionInvertible ==
    Finished => VerifierFailureConditionOn(Score(ParamVector), Scores(PerturbedPoints))

\* the vector verifier raised "can't verify optimum" with every system
\* invertible
VerifierFailureConditionWitness ==
    /\ Finished /\ alpha.type = "ndarray"
    /\ out.k = "AssertionError" /\ AllEvaluated

\* s is a number below s0
Lower(s, s0) == IsNum(s) /\ IsNum(s0) /\ RLt(s.v, s0.v)
\* parameter vectors a and b are at least 1 apart in some component
Apart(a, b) == \E c \in 1..Len(a) : RLe(ROne, RAbs(RSub(a[c], b[c])))
\* grid point i has the least number among the scores gs
GridMinimizer(gs, i) == IsNum(gs[i]) /\ \A j \in 1..Len(gs) : ~Lower(gs[j], gs[i])
\* the parameter a of score s0 is far from the minimizer: the grid has a
\* minimizer, and each one scores below s0 and is at least 1 away from a
FarFromMinimizerOn(a, s0, grid, gs) ==
    /\ IsNum(s0)
    /\ \E i \in 1..Len(gs) : GridMinimizer(gs, i)
    /\ \A i \in 1..Len(gs) :
           GridMinimizer(gs, i) => Lower(gs[i], s0) /\ Apart(grid[i], a)
FarFromMinimizer ==
    FarFromMinimizerOn(ParamVector, Score(ParamVector), GridPoints, Scores(GridPoints))

SteepDrop(s, s0) ==
    /\ ~Raised(s) /\ ~Raised(s0)
    /\ FNegative(FAdd(FSub(s, s0), Num(RMul(OneThousandth, OneThousandth))))
NoSteepDropOn(s0, ss) == \A k \in 1..Len(ss) : ~SteepDrop(ss[k], s0)

IsMinimizerOn(s0, gs, ss) ==
    /\ IsNum(s0)
    /\ \A i \in 1..Len(gs) : ~Lower(gs[i], s0)
    /\ \A k \in 1..Len(ss) : ~Lower(ss[k], s0)
IsMinimizer ==
    IsMinimizerOn(Score(ParamVector), Scores(GridPoints), Scores(PerturbedPoints))

\* C7 as stated: a verifier given a minimizer of the score over the
\* non-negative parameters returns without raising.
VerifierAcceptsOptima ==
    (Finished /\ IsMinimizer) => out.k = "returned"

\* C7, amended: a verifier given a minimizer does not raise "can't verify
\* optimum", also when a component is smaller than delta and the downward
\* perturbation is reflected; it returns when every system it evaluates is
\* invertible, and raises LinAlgError when one is singular.
VerifierAcceptsOptimaInvertible ==
    (Finished /\ IsMinimizer) =>
        out.k = (IF AllEvaluated THEN "returned" ELSE "LinAlgError")

\* a verifier returned for a minimizer of positive score with a component
\* smaller than delta
VerifierAcceptsOptimaWitness ==
    /\ Finished /\ IsMinimizer /\ out.k = "returned" /\ Len(y) >= 2
    /\ RSign(Score(ParamVector).v) > 0
    /\ \E c \in 1..Len(ParamVector) : RLt(ParamVector[c], OneThousandth)

\* C8 as stated: the failure carries the message together with the
\* offending parameter context, some argument beside the message.
VerificationFailureReport ==
    (Finished /\ out.k = "AssertionError") =>
        /\ Len(out.args) > 1
        /\ out.args[1] = "can't verify optimum"

\* C8, amended: the failure carries the message "can't verify optimum" and
\* nothing else: no trial index, parameter value or component.
VerificationFailureMessageOnly ==
    (Finished /\ out.k = "AssertionError") => out.args = <<"can't verify optimum">>

\* the scalar verifier raised the failure
VerificationFailureReportWitness ==
    Finished /\ alpha.type = "float" /\ out.k = "AssertionError"

(***************************************************************************)
(* Calls of the functions of the simulation notebook and of the second      *)
(* LOOCV notebook on one data set (nb = 5): any one of them is called with  *)
(* the caller's X, y, Gamma and alpha, and the call ends with a record as   *)
(* above, fn the function called.                                           *)
(***************************************************************************)
FitGammaDiagonals == {<<1, 0>>, <<2, 1>>}
FitAlphaList == << <<0, 1>>, <<1, 1>> >>
FitAlphaVectors == {<<<<0, 1>>, <<1, 1>>>>, <<<<1, 1>>, <<1, 1>>>>, <<<<1, 1>>, <<2, 1>>>>}
IntAlphaValues == {1}

InitFit ==
    /\ \E n \in 1..MaxTrain : X \in [1..n -> XRows] /\ y \in [1..n -> VerifyYValues]
    /\ \E g \in FitGammaDiagonals : Gamma = Diag(RVec(g))
    /\ \/ \E i \in 1..Len(FitAlphaList) : alpha = [type |-> "float", v |-> RQ(FitAlphaList[i])]
       \/ \E k \in IntAlphaValues : alpha = [type |-> "int", v |-> RFromInt(k)]
       \/ \E v \in FitAlphaVectors : alpha = [type |-> "ndarray", v |-> RQVec(v)]
    /\ nb = 5
    /\ pc = "verify"
    /\ out = NoCall
    /\ h = << >>
    /\ rotation_matrix = << >>
    /\ NoSimulation

\* a score as the end of a call: returned, or LinAlgError raised
ScoreResult(f) == IF Raised(f) THEN SingularMatrix ELSE ReturnedValue(f)

\* the matrix D a verifier's f passes for the parameter
DOf(a, p) == IF a.type = "ndarray" THEN Diag(a.v) ELSE ScaledIdentity(p, a.v)

\* compute_loocv(X, y, D)
CallLoocv ==
    /\ nb = 5 /\ pc = "verify"
    /\ Verified("compute_loocv",
               ScoreResult(compute_loocv(RMat(X), RVec(y), DOf(alpha, Len(X[1])))), alpha.v)

\* compute_loocv_brute_force(X, y, Gamma)
CallBruteForce ==
    /\ nb = 5 /\ pc = "verify"
    /\ Verified("compute_loocv_brute_force",
               ScoreResult(compute_loocv_brute_force(RMat(X), RVec(y), Gamma)), alpha.v)

\* compute_loocv_efficient(X, y, Gamma)
CallEfficient ==
    /\ nb = 5 /\ pc = "verify"
    /\ Verified("compute_loocv_efficient",
               ScoreResult(compute_loocv_efficient(RMat(X), RVec(y), Gamma).val), alpha.v)

\* fit_ridge_regression(X_train, y_train, alpha)
CallFit ==
    /\ nb = 5 /\ pc = "verify"
    /\ Verified("fit_ridge_regression",
               fit_ridge_regression(RMat(X), RVec(y), alpha), AlphaAfterFit(alpha, Len(X[1])))

NextFit == CallLoocv \/ CallBruteForce \/ CallEfficient \/ CallFit
              \/ CallVerify1 \/ CallVerifyP

SpecFit == InitFit /\ [][NextFit]_vars

(***************************************************************************)
(* Properties of the calls (specification SpecFit).                         *)
(***************************************************************************)
CallFinished == nb = 5 /\ pc \in {"done", "failed"}
\* Sylvester's criterion: every leading principal minor is positive
Leading(A, k) == SeqOf(LAMBDA i : SubSeq(A[i], 1, k), k)
PositiveDefinite(A) == \A k \in 1..Len(A) : RSign(Det(Leading(A, k))) > 0
\* X^T X + D for the caller's X, and for X without row i
SystemOf(D) == RegularizedGram(RMat(X), D, Len(D))
ReducedSystemOf(D, i) == RegularizedGram(Delete(RMat(X), i), D, Len(D))
\* the regularized matrices of the call that ended: A for the efficient
\* estimators and the fit, A and each reduced system for the brute force
SystemsOf(fn) ==
    IF fn = "compute_loocv" THEN <<SystemOf(DOf(alpha, Len(X[1])))>>
    ELSE IF fn = "fit_ridge_regression"
    THEN <<SystemOf(IF alpha.type = "ndarray" THEN Diag(alpha.v)
                    ELSE Diag(Ones(Len(X[1]), alpha.v)))>>
    ELSE IF fn = "compute_loocv_efficient" THEN <<SystemOf(GammaSquared(Gamma))>>
    ELSE IF fn = "compute_loocv_brute_force"
    THEN <<SystemOf(GammaSquared(Gamma))>>
         \o SeqOf(LAMBDA i : ReducedSystemOf(GammaSquared(Gamma), i), Len(y))
    ELSE << >>
SomeNotPositiveDefinite(As) == \E k \in 1..Len(As) : ~PositiveDefinite(As[k])

\* C9: a call of the efficient estimator, of the brute-force estimator or
\* of fit_ridge_regression whose regularized matrix (for the brute force: A
\* or one of the n reduced systems) is not positive definite ends with
\* LinAlgError raised, not with a returned value.
SingularSystemFails ==
    (CallFinished /\ SomeNotPositiveDefinite(SystemsOf(out.fn))) =>
        out.k = "LinAlgError" /\ pc = "failed"

\* fit_ridge_regression raised for a per-feature parameter with a zero
\* component on two observations whose first feature is 0
SingularSystemFailsWitness ==
    /\ CallFinished /\ out.fn = "fit_ridge_regression" /\ alpha.type = "ndarray"
    /\ Len(y) = 2 /\ \E i \in 1..Len(y) : y[i] # 0
    /\ SomeNotPositiveDefinite(SystemsOf(out.fn))
    /\ out.k = "LinAlgError"

(***************************************************************************)
(* The simulation notebook, cell by cell (nb = 6).  X, y and alpha are the  *)
(* arguments of the call made last, out what it ended with.                 *)
(***************************************************************************)
\* beta = np.array([...]); p is its length
beta == <<0, 1>>
MaxTrials == 2
TrainSizeLists == {<<1>>, <<2>>, <<1, 2>>, <<2, 2>>}
\* the states an unseeded generator can start from
Entropy == {0, 2}
\* first values of the parameter files the notebook can find
ParamBases == {1, 1000}

\* a bug: the seed is not applied
Unseeded(state, seed) == state
\* np.random.seed(seed)
np_random_seed(state, seed) == seed

\* the generator's state after k draws, and the k-th normal variate
RECURSIVE RngAfter(_, _)
RngAfter(state, k) == IF k = 0 THEN state ELSE RngAfter((state * 5 + 3) % 16, k - 1)
NormalAt(state, k) == (RngAfter(state, k) % 3) - 1

\* generate_feature_matrix(n): np.random.normal(size=(n, p)), row by row
generate_feature_matrix(state, n) ==
    SeqOf(LAMBDA i : SeqOf(LAMBDA j : NormalAt(state, (i - 1) * Len(beta) + j), Len(beta)), n)
RECURSIVE IntDot(_, _, _)
IntDot(u, v, k) == IF k = 0 THEN 0 ELSE IntDot(u, v, k - 1) + u[k] * v[k]
\* generate_target_vector(X): np.dot(X, beta) + np.random.normal(size=X.shape[0])
generate_target_vector(state, Xm) ==
    SeqOf(LAMBDA i : IntDot(Xm[i], beta, Len(beta)) + NormalAt(state, i), Len(Xm))

\* generate_simulation_data(n), from the generator state s0: the four draws
\* in the order of the statements, each from the state the one before left
TestData(X_train, y_train, X_test, s3) ==
    [data |-> <<X_train, y_train, X_test, generate_target_vector(s3, X_test)>>,
     rng |-> RngAfter(s3, 1)]
TestPoint(X_train, y_train, s2) ==
    TestData(X_train, y_train, generate_feature_matrix(s2, 1), RngAfter(s2, Len(beta)))
TrainTarget(X_train, s1, n) ==
    TestPoint(X_train, generate_target_vector(s1, X_train), RngAfter(s1, n))
generate_simulation_data(s0, n) ==
    TrainTarget(generate_feature_matrix(s0, n), RngAfter(s0, n * Len(beta)), n)

\* a bug: the counter is not advanced
TrialIndexKept(t) == t
\* trial_index += 1
TrialIndexNext(t) == t + 1

NoRun == << >>

InitSim ==
    /\ train_sizes \in TrainSizeLists
    /\ N \in 1..MaxTrials
    /\ rng \in Entropy
    /\ nb = 6
    /\ pc = "parameters"
    /\ trial_index = 0 /\ simulation_data = << >> /\ trials = << >>
    /\ rr1_params = << >> /\ rrp_params = << >>
    /\ at = << >> /\ errors = << >> /\ simulation_results = << >>
    /\ first_run = NoRun
    /\ X = << >> /\ y = << >> /\ alpha = None /\ out = NoCall
    /\ Gamma = << >> /\ h = << >> /\ rotation_matrix = << >>

\* cell 2: np.random.seed(1) and the simulation parameters
CellParameters ==
    /\ nb = 6 /\ pc = "parameters"
    /\ rng' = np_random_seed(rng, 1)
    /\ pc' = "generate"
    /\ UNCHANGED <<X, y, Gamma, out, h, rotation_matrix, alpha, nb, train_sizes, N,
                   trial_index, simulation_data, trials, rr1_params, rrp_params,
                   at, errors, simulation_results, first_run>>

\* cell 3, up to the loop: trial_index = 0; simulation_data = []
CellGenerate ==
    /\ nb = 6 /\ pc = "generate"
    /\ trial_index' = 0 /\ simulation_data' = << >> /\ trials' = << >>
    /\ pc' = "generate_loop"
    /\ UNCHANGED <<X, y, Gamma, out, h, rotation_matrix, alpha, nb, train_sizes, N, rng,
                   rr1_params, rrp_params, at, errors, simulation_results, first_run>>

\* one pass of `for _ in range(N)` for n = train_sizes[len(simulation_data)]
Generated(g) ==
    /\ trials' = Append(trials, <<trial_index, g.data>>)
    /\ trial_index' = TrialIndexNext(trial_index)
    /\ rng' = g.rng
GenerateTrial ==
    /\ nb = 6 /\ pc = "generate_loop"
    /\ Len(simulation_data) < Len(train_sizes) /\ Len(trials) < N
    /\ Generated(generate_simulation_data(rng, train_sizes[Len(simulation_data) + 1]))
    /\ UNCHANGED <<X, y, Gamma, out, h, rotation_matrix, alpha, nb, pc, train_sizes, N,
                   simulation_data, rr1_params, rrp_params, at, errors,
                   simulation_results, first_run>>

\* the end of a pass of `for n in train_sizes`: simulation_data.append(trials),
\* and trials = [] of the next pass if there is one
GenerateSize ==
    /\ nb = 6 /\ pc = "generate_loop"
    /\ Len(simulation_data) < Len(train_sizes) /\ Len(trials) = N
    /\ simulation_data' = Append(simulation_data, trials)
    /\ trials' = IF Len(simulation_data) + 1 = Len(train_sizes) THEN trials ELSE << >>
    /\ pc' = IF Len(simulation_data) + 1 = Len(train_sizes) THEN "load" ELSE pc
    /\ UNCHANGED <<X, y, Gamma, out, h, rotation_matrix, alpha, nb, train_sizes, N, rng,
                   trial_index, rr1_params, rrp_params, at, errors,
                   simulation_results, first_run>>

\* the rows of the two parameter files whose first value is base: one row
\* per trial, a number in the first file and p numbers in the second
Rr1File(base, rows) == SeqOf(LAMBDA i : RFromInt(base + i - 1), rows)
RrpFile(base, rows) ==
    SeqOf(LAMBDA i : SeqOf(LAMBDA j : RFromInt(base + i + j - 2), Len(beta)), rows)
\* params[t] for the 0-based index t
Row(params, t) == params[t + 1]

\* cell 4: np.loadtxt of the two files; a second run finds the same files
CellLoad ==
    /\ nb = 6 /\ pc = "load"
    /\ \E base \in ParamBases :
          /\ rr1_params' = Rr1File(base, Len(train_sizes) * N)
          /\ rrp_params' = RrpFile(base, Len(train_sizes) * N)
          /\ Len(first_run) > 0 => rr1_params' = first_run[1].rr1_params
    /\ pc' = "verify"
    /\ at' = << >>
    /\ UNCHANGED <<X, y, Gamma, out, h, rotation_matrix, alpha, nb, train_sizes, N, rng,
                   trial_index, simulation_data, trials, errors,
                   simulation_results, first_run>>

\* The verification loop.  at = <<j, k, m>> is the call made last: trial k of
\* size j, m = 1 the scalar verifier and m = 2 the vector verifier; the
\* call after it is VerifyNext(at), and the loop is over when that is
\* beyond the last size.
VerifyNext(a) ==
    IF a = << >> THEN <<1, 1, 1>>
    ELSE IF a[3] = 1 THEN <<a[1], a[2], 2>>
    ELSE IF a[2] < N THEN <<a[1], a[2] + 1, 1>>
    ELSE <<a[1] + 1, 1, 1>>

\* a bug: the exception of the call is swallowed
CalledAtNoHalt(q, fn, Xm, yv, a, r) ==
    /\ at' = q
    /\ X' = Xm /\ y' = yv /\ alpha' = a
    /\ out' = [fn |-> fn, k |-> r.k, args |-> r.args]
    /\ pc' = pc

\* a call at position q of the loop with the arguments Xm, yv, a ended with r
CalledAt(q, fn, Xm, yv, a, r) ==
    /\ at' = q
    /\ X' = Xm /\ y' = yv /\ alpha' = a
    /\ out' = [fn |-> fn, k |-> r.k, args |-> r.args]
    /\ pc' = IF r.k = "returned" THEN pc ELSE "failed"

\* verify_loocv_opt_1(X_train, y_train, rr1_params[trial_index]) for the
\* trial (trial_index, (X_train, y_train, _, _)) at position q; the loop
\* binds the notebook's trial_index to the trial's
Verify1At(q, trial) ==
    /\ CalledAt(q, "verify_loocv_opt_1", trial[2][1], trial[2][2],
             [type |-> "float", v |-> Row(rr1_params, trial[1])],
             verify_loocv_opt_1(RMat(trial[2][1]), RVec(trial[2][2]),
                                Row(rr1_params, trial[1])))
    /\ trial_index' = trial[1]
VerifyTrial1 ==
    /\ nb = 6 /\ pc = "verify"
    /\ VerifyNext(at)[1] <= Len(simulation_data) /\ VerifyNext(at)[3] = 1
    /\ Verify1At(VerifyNext(at), simulation_data[VerifyNext(at)[1]][VerifyNext(at)[2]])
    /\ UNCHANGED <<Gamma, h, rotation_matrix, nb, train_sizes, N, rng,
                   simulation_data, trials, rr1_params, rrp_params, errors,
                   simulation_results, first_run>>

\* verify_loocv_opt_p(X_train, y_train, rrp_params[trial_index])
VerifyPAt(q, trial) ==
    /\ CalledAt(q, "verify_loocv_opt_p", trial[2][1], trial[2][2],
             [type |-> "ndarray", v |-> Row(rrp_params, trial[1])],
             verify_loocv_opt_p(RMat(trial[2][1]), RVec(trial[2][2]),
                                Row(rrp_params, trial[1])))
    /\ trial_index' = trial[1]
VerifyTrialP ==
    /\ nb = 6 /\ pc = "verify"
    /\ VerifyNext(at)[1] <= Len(simulation_data) /\ VerifyNext(at)[3] = 2
    /\ VerifyPAt(VerifyNext(at), simulation_data[VerifyNext(at)[1]][VerifyNext(at)[2]])
    /\ UNCHANGED <<Gamma, h, rotation_matrix, nb, train_sizes, N, rng,
                   simulation_data, trials, rr1_params, rrp_params, errors,
                   simulation_results, first_run>>

\* the verification loop is over: cell 8 starts with
\* simulation_results = defaultdict(lambda: defaultdict(list))
ModelNames == <<"LS", "RR-1", "RR-p">>
NoResults == [m \in {ModelNames[i] : i \in 1..Len(ModelNames)} |->
                 [mean |-> << >>, error_bar |-> << >>]]
CellSimulate ==
    /\ nb = 6 /\ pc = "verify"
    /\ VerifyNext(at)[1] > Len(simulation_data)
    /\ pc' = "simulate"
    /\ at' = << >>
    /\ simulation_results' = NoResults
    /\ errors' = << >>
    /\ UNCHANGED <<X, y, Gamma, out, h, rotation_matrix, alpha, nb, train_sizes, N, rng,
                   trial_index, simulation_data, trials, rr1_params, rrp_params,
                   first_run>>

\* LinearRegression(fit_intercept=False).fit(X, y).coef_: the least-squares
\* solution, the one of least norm when X^T X is singular (for p = 2, X has
\* rank 1 and the solution is X^T y / trace(X^T X), or X is zero)
LeastNorm(Xty, trace) ==
    IF RSign(trace) = 0 THEN SeqOf(LAMBDA i : RZero, Len(Xty))
    ELSE SeqOf(LAMBDA i : RDiv(Xty[i], trace), Len(Xty))
LeastSquaresOf(Xm, yv, G, p) ==
    IF Singular(G) THEN LeastNorm(TMatVec(Xm, yv, p), RAdd(G[1][1], G[2][2]))
    ELSE MatVec(inv(G), TMatVec(Xm, yv, p))
LeastSquares(Xm, yv) == LeastSquaresOf(Xm, yv, Gram(Xm, Len(beta)), Len(beta))

\* a bug: the signed error
SignedPredictionError(y_test, y_pred) == RSub(y_test[1], y_pred[1])
\* np.abs(y_test[0] - y_pred[0])
AbsolutePredictionError(y_test, y_pred) == RAbs(RSub(y_test[1], y_pred[1]))

\* from the fitted coefficients (or the exception of the fit) to the error
ModelErrorOf(X_test, y_test, fit) ==
    IF fit.k # "returned" THEN fit
    ELSE ReturnedValue(AbsolutePredictionError(RVec(y_test),
                                               MatVec(RMat(X_test), fit.args[1])))
\* the parameter compute_model_error passes to fit_ridge_regression
ModelAlpha(model_name, t) ==
    IF model_name = "RR-1" THEN [type |-> "float", v |-> Row(rr1_params, t)]
    ELSE IF model_name = "RR-p" THEN [type |-> "ndarray", v |-> Row(rrp_params, t)]
    ELSE alpha
\* compute_model_error(model_name, trial)
compute_model_error(model_name, trial) ==
    ModelErrorOf(trial[2][3], trial[2][4],
        IF model_name = "LS"
        THEN ReturnedValue(LeastSquares(RMat(trial[2][1]), RVec(trial[2][2])))
        ELSE fit_ridge_regression(RMat(trial[2][1]), RVec(trial[2][2]),
                                  ModelAlpha(model_name, trial[1])))

\* np.mean(values)
Mean(values) == RDiv(RSumOf(LAMBDA i : values[i], Len(values)), RFromInt(Len(values)))
SquaredDeviations(values, mean) ==
    RSumOf(LAMBDA i : RMul(RSub(values[i], mean), RSub(values[i], mean)), Len(values))
\* a bug: ddof = 0
PopulationVariance(values, mean) ==
    FDiv(SquaredDeviations(values, mean), RFromInt(Len(values)))
\* np.std(values, ddof=1) squared: 0/0, nan, for a single value
SampleVariance(values, mean) ==
    FDiv(SquaredDeviations(values, mean), RFromInt(Len(values) - 1))
\* scipy.stats.t.interval(alpha=0.95, df=df, scale=scale)[1] for the square
\* of scale: the 0.975 quantile of Student's t with df degrees of freedom
\* times scale, kept as its factors; nan unless df > 0 and scale > 0
TIntervalUpper(df, scale_squared) ==
    IF df > 0 /\ IsNum(scale_squared) /\ RSign(scale_squared.v) > 0
    THEN [k |-> "t_upper", confidence |-> RFrac(95, 100), df |-> df,
          scale_squared |-> scale_squared.v]
    ELSE [k |-> "nan", confidence |-> RFrac(95, 100), df |-> df, scale_squared |-> RZero]
\* compute_simulation_statistics(values): (mean, interval[1])
StatisticsOf(values, mean) ==
    <<mean, TIntervalUpper(Len(values) - 1,
                           FScale(SampleVariance(values, mean), RFromInt(Len(values))))>>
compute_simulation_statistics(values) == StatisticsOf(values, Mean(values))

\* The simulation loop.  at = <<j, m, k>> is the step made last: for size j
\* and model ModelNames[m], the error of trial k, or for k = N + 1 the
\* statistics of the N errors.
SimulateNext(a) ==
    IF a = << >> THEN <<1, 1, 1>>
    ELSE IF a[3] <= N THEN <<a[1], a[2], a[3] + 1>>
    ELSE IF a[2] < Len(ModelNames) THEN <<a[1], a[2] + 1, 1>>
    ELSE <<a[1] + 1, 1, 1>>

\* errors.append(compute_model_error(model_name, trial)), after errors = []
\* for the first trial of the list
ErrorAt(q, model_name, trial, r) ==
    /\ CalledAt(q, model_name, trial[2][1], trial[2][2],
                ModelAlpha(model_name, trial[1]), r)
    /\ errors' = IF r.k # "returned" THEN errors
                 ELSE Append(IF q[3] = 1 THEN << >> ELSE errors, r.args[1])
ErrorOf(q, model_name, trial) ==
    ErrorAt(q, model_name, trial, compute_model_error(model_name, trial))
ComputeError ==
    /\ nb = 6 /\ pc = "simulate"
    /\ SimulateNext(at)[1] <= Len(simulation_data) /\ SimulateNext(at)[3] <= N
    /\ ErrorOf(SimulateNext(at), ModelNames[SimulateNext(at)[2]],
               simulation_data[SimulateNext(at)[1]][SimulateNext(at)[3]])
    /\ UNCHANGED <<Gamma, h, rotation_matrix, nb, train_sizes, N, rng, trial_index,
                   simulation_data, trials, rr1_params, rrp_params,
                   simulation_results, first_run>>

\* a bug: the half-width is not kept
AggregatedMeanOnly(model_name, stats) ==
    simulation_results' =
        [simulation_results EXCEPT ![model_name].mean = Append(@, stats[1])]
\* error_mean, error_bar = compute_simulation_statistics(errors) and the
\* two appends
Aggregated(model_name, stats) ==
    simulation_results' =
        [simulation_results EXCEPT
            ![model_name].mean = Append(@, stats[1]),
            ![model_name].error_bar = Append(@, stats[2])]
Aggregate ==
    /\ nb = 6 /\ pc = "simulate"
    /\ SimulateNext(at)[1] <= Len(simulation_data) /\ SimulateNext(at)[3] = N + 1
    /\ Aggregated(ModelNames[SimulateNext(at)[2]], compute_simulation_statistics(errors))
    /\ at' = SimulateNext(at)
    /\ UNCHANGED <<X, y, Gamma, out, h, rotation_matrix, alpha, nb, pc, train_sizes, N,
                   rng, trial_index, simulation_data, trials, rr1_params, rrp_params,
                   errors, first_run>>

\* the simulation loop is over
CellDone ==
    /\ nb = 6 /\ pc = "simulate"
    /\ SimulateNext(at)[1] > Len(simulation_data)
    /\ pc' = "done"
    /\ UNCHANGED <<X, y, Gamma, out, h, rotation_matrix, alpha, nb, train_sizes, N, rng,
                   trial_index, simulation_data, trials, rr1_params, rrp_params, at,
                   errors, simulation_results, first_run>>

\* what a run ended with
RunOutcome ==
    [pc |-> pc, out |-> out, at |-> at, simulation_data |-> simulation_data,
     rr1_params |-> rr1_params, rrp_params |-> rrp_params,
     errors |-> errors, simulation_results |-> simulation_results]

\* The notebook is run a second time, in a new process: the parameters and
\* the files are the same, the generator starts from any state.
Rerun ==
    /\ nb = 6 /\ pc \in {"done", "failed"} /\ Len(first_run) = 0
    /\ first_run' = <<RunOutcome>>
    /\ rng' \in Entropy
    /\ pc' = "parameters"
    /\ trial_index' = 0 /\ simulation_data' = << >> /\ trials' = << >>
    /\ rr1_params' = << >> /\ rrp_params' = << >>
    /\ at' = << >> /\ errors' = << >> /\ simulation_results' = << >>
    /\ X' = << >> /\ y' = << >> /\ alpha' = None /\ out' = NoCall
    /\ UNCHANGED <<Gamma, h, rotation_matrix, nb, train_sizes, N>>

NextSim ==
    \/ CellParameters \/ CellGenerate \/ GenerateTrial \/ GenerateSize
    \/ CellLoad \/ VerifyTrial1 \/ VerifyTrialP \/ CellSimulate
    \/ ComputeError \/ Aggregate \/ CellDone \/ Rerun

SpecSim == InitSim /\ [][NextSim]_vars

(***************************************************************************)
(* Properties of the simulation notebook.                                   *)
(***************************************************************************)
\* the index of trial k of size j, both counted from 1
ExpectedIndex(j, k) == (j - 1) * N + (k - 1)
\* the <<j, k>> of the trials generated so far, finished sizes first
Positions ==
    {<<j, k>> : j \in 1..Len(simulation_data), k \in 1..N}
        \cup (IF pc = "generate_loop"
              THEN {<<Len(simulation_data) + 1, k>> : k \in 1..Len(trials)} ELSE {})
TrialAt(q) ==
    IF q[1] <= Len(simulation_data) THEN simulation_data[q[1]][q[2]] ELSE trials[q[2]]
\* the last step was a call of a verifier or of compute_model_error
LastStepCalled ==
    /\ nb = 6 /\ pc \in {"verify", "simulate", "failed", "done"} /\ at # << >>
    /\ out.fn \in {"verify_loocv_opt_1", "verify_loocv_opt_p"} \/ at[3] <= N
\* the <<j, k>> of the trial of the last call
LastCallPosition ==
    IF out.fn \in {"verify_loocv_opt_1", "verify_loocv_opt_p"}
    THEN <<at[1], at[2]>> ELSE <<at[1], at[3]>>
\* the row of the parameter files the last call was given, when it takes one
UsesRow(t) ==
    /\ out.fn \in {"verify_loocv_opt_1", "RR-1"} =>
          alpha = [type |-> "float", v |-> Row(rr1_params, t)]
    /\ out.fn \in {"verify_loocv_opt_p", "RR-p"} =>
          alpha = [type |-> "ndarray", v |-> Row(rrp_params, t)]

\* C10: trial k of size j carries the index j*N + k (counted from 0), no two
\* trials carry the same index, a finished generation has assigned
\* 0 .. len(train_sizes)*N - 1, and every verifier call and every ridge fit
\* is given row trial_index of its parameter file and the training data of
\* that trial.
TrialIndexCorrespondence ==
    nb = 6 =>
        /\ \A q \in Positions : TrialAt(q)[1] = ExpectedIndex(q[1], q[2])
        /\ \A q \in Positions : \A r \in Positions :
              TrialAt(q)[1] = TrialAt(r)[1] => q = r
        /\ pc \notin {"parameters", "generate", "generate_loop"} =>
              {TrialAt(q)[1] : q \in Positions} = 0..(Len(train_sizes) * N - 1)
        /\ LastStepCalled =>
              /\ UsesRow(ExpectedIndex(LastCallPosition[1], LastCallPosition[2]))
              /\ X = TrialAt(LastCallPosition)[2][1]
              /\ y = TrialAt(LastCallPosition)[2][2]

\* the second trial of the second size is fitted with row 3 of the
\* per-feature file, the row both verifiers were given before
TrialIndexCorrespondenceWitness ==
    /\ nb = 6 /\ pc = "simulate" /\ N = 2 /\ at = <<2, 3, 2>>
    /\ out.fn = "RR-p" /\ out.k = "returned"
    /\ TrialAt(<<2, 2>>)[1] = 3
    /\ alpha.v = Row(rrp_params, 3)
    /\ X = simulation_data[2][2][2][1]

\* the shape of a trial generated for the training size n
TrialShape(trial, n) ==
    /\ Len(trial[2]) = 4
    /\ Len(trial[2][1]) = n
    /\ \A i \in 1..n : Len(trial[2][1][i]) = Len(beta)
    /\ Len(trial[2][2]) = n
    /\ Len(trial[2][3]) = 1 /\ Len(trial[2][3][1]) = Len(beta)
    /\ Len(trial[2][4]) = 1
\* the errors recorded after the step <<j, m, k>> of the simulation loop: one
\* for each of the first k trials of size j (all N at the statistics step),
\* each the model's error on that trial
ErrorsRecorded(j, m, k) ==
    /\ Len(errors) = k
    /\ \A i \in 1..k :
          /\ RSign(errors[i]) >= 0
          /\ ReturnedValue(errors[i]) =
                 compute_model_error(ModelNames[m], simulation_data[j][i])
\* the last step of the simulation loop returned
SimulationStepReturned ==
    /\ nb = 6 /\ pc \in {"simulate", "done"} /\ at # << >> /\ out.k = "returned"

\* C11: every finished training size n has exactly N trials, each with an
\* n x p training matrix, n training targets and one test point; and after
\* each step of the simulation loop the model at hand has recorded exactly
\* one non-negative absolute error for each trial it has been given, computed
\* from that trial's training data and test point.
TrialStructure ==
    nb = 6 =>
        /\ Len(simulation_data) <= Len(train_sizes)
        /\ pc \notin {"parameters", "generate", "generate_loop"} =>
              Len(simulation_data) = Len(train_sizes)
        /\ \A j \in 1..Len(simulation_data) :
              /\ Len(simulation_data[j]) = N
              /\ \A k \in 1..N : TrialShape(simulation_data[j][k], train_sizes[j])
        /\ SimulationStepReturned =>
              ErrorsRecorded(at[1], at[2], IF at[3] <= N THEN at[3] ELSE N)

\* the ridge fit of the second trial of size 2 has recorded its error, a
\* positive one, after the first trial's
TrialStructureWitness ==
    /\ SimulationStepReturned /\ pc = "simulate" /\ N = 2
    /\ at = <<Len(train_sizes), 2, 2>> /\ train_sizes[at[1]] = 2
    /\ Len(X) = 2 /\ Len(errors) = 2
    /\ RSign(errors[2]) > 0
    /\ ReturnedValue(errors[2]) = compute_model_error("RR-1", simulation_data[at[1]][2])

\* the statistics of the N errors of model m on the trials of size j
StatisticsAt(j, m) ==
    compute_simulation_statistics(
        SeqOf(LAMBDA k : compute_model_error(ModelNames[m], simulation_data[j][k]).args[1], N))
\* the number of sizes model m has statistics for after the step a
SizesAggregated(a, m) ==
    IF a = << >> THEN 0
    ELSE IF a[2] > m \/ (a[2] = m /\ a[3] = N + 1) THEN a[1] ELSE a[1] - 1

\* C12: during the simulation loop each estimator has one mean and one
\* half-width for every training size it has finished, the j-th of each
\* computed from the N errors of the j-th training size; when the loop has
\* completed each estimator has exactly len(train_sizes) of both.
SimulationOutputShape ==
    (nb = 6 /\ pc \in {"simulate", "done"}) =>
        /\ DOMAIN simulation_results = {"LS", "RR-1", "RR-p"}
        /\ \A m \in 1..Len(ModelNames) :
              /\ Len(simulation_results[ModelNames[m]].mean) = SizesAggregated(at, m)
              /\ Len(simulation_results[ModelNames[m]].error_bar) = SizesAggregated(at, m)
              /\ \A j \in 1..SizesAggregated(at, m) :
                    /\ simulation_results[ModelNames[m]].mean[j] = StatisticsAt(j, m)[1]
                    /\ simulation_results[ModelNames[m]].error_bar[j] = StatisticsAt(j, m)[2]
              /\ pc = "done" => SizesAggregated(at, m) = Len(train_sizes)

\* a completed run over two training sizes of two trials each
SimulationOutputShapeWitness ==
    /\ nb = 6 /\ pc = "done" /\ Len(train_sizes) = 2 /\ N = 2
    /\ \A m \in 1..Len(ModelNames) :
          /\ Len(simulation_results[ModelNames[m]].mean) = 2
          /\ Len(simulation_results[ModelNames[m]].error_bar) = 2
    /\ simulation_results["RR-1"].mean[2] = StatisticsAt(2, 2)[1]
    /\ ~REq(simulation_results["RR-1"].mean[2], simulation_results["RR-1"].mean[1])

\* the statistics step of the simulation loop was the last step
JustAggregated ==
    /\ nb = 6 /\ pc \in {"simulate", "done"} /\ at # << >> /\ at[3] = N + 1
LastMean == simulation_results[ModelNames[at[2]]].mean[at[1]]
LastErrorBar == simulation_results[ModelNames[at[2]]].error_bar[at[1]]
\* sum of the values and of their squares
SumOfValues(values) == RSumOf(LAMBDA i : values[i], Len(values))
SumOfSquares(values) == RSumOf(LAMBDA i : RMul(values[i], values[i]), Len(values))
\* n (n - 1) s^2 = n sum(x^2) - sum(x)^2 for the sample variance s^2
IsSampleVarianceOverN(q, values) ==
    REq(RMul(q, RFromInt(Len(values) * Len(values) * (Len(values) - 1))),
        RSub(RMul(RFromInt(Len(values)), SumOfSquares(values)),
             RMul(SumOfValues(values), SumOfValues(values))))
\* the mean is the sample mean, and the second value is the 0.975 quantile of
\* Student's t with len(values) - 1 degrees of freedom times s / sqrt(n)
StatisticsAsStated(mean, bar, values) ==
    /\ REq(RMul(mean, RFromInt(Len(values))), SumOfValues(values))
    /\ bar.confidence = RFrac(95, 100)
    /\ bar.df = Len(values) - 1
    /\ bar.k = "t_upper" => IsSampleVarianceOverN(bar.scale_squared, values)
\* the second value is a number, and not a negative one
IsHalfWidth(bar) == bar.k = "t_upper" /\ RSign(bar.scale_squared) >= 0

\* C13: compute_simulation_statistics(values) returns the sample mean of
\* values and the upper end of the zero-centred 95% Student-t interval with
\* len(values) - 1 degrees of freedom and scale s / sqrt(len(values)) for the
\* sample standard deviation s (ddof = 1), a non-negative half-width.
AggregationFormula ==
    JustAggregated =>
        /\ StatisticsAsStated(LastMean, LastErrorBar, errors)
        /\ IsHalfWidth(LastErrorBar)

\* the same for samples of two or more values that are not all equal; any
\* other sample has nan in place of the half-width
AggregationFormulaOfSpreadValues ==
    JustAggregated =>
        /\ StatisticsAsStated(LastMean, LastErrorBar, errors)
        /\ IsHalfWidth(LastErrorBar) <=>
              (Len(errors) >= 2 /\ \E i \in 1..Len(errors) : ~REq(errors[i], errors[1]))

AggregationFormulaWitness ==
    /\ JustAggregated /\ Len(errors) = 2 /\ ~REq(errors[1], errors[2])
    /\ IsHalfWidth(LastErrorBar) /\ RSign(LastErrorBar.scale_squared) > 0

\* two equal errors: the sample deviation is 0 and the result is nan
AggregationOfEqualValues ==
    /\ JustAggregated /\ Len(errors) = 2 /\ REq(errors[1], errors[2])
    /\ LastErrorBar.k = "nan"

(***************************************************************************)
(* Properties of the calls: what a call leaves of its arguments.           *)
(***************************************************************************)
\* C14: a call of compute_loocv, of the brute-force or the efficient
\* estimator, of verify_loocv_opt_1, of verify_loocv_opt_p or of
\* fit_ridge_regression leaves the caller's X, y, Gamma and alpha as they
\* were, the per-feature alpha whose components the verifier perturbs
\* included.
NoInPlaceMutation ==
    [][nb = 5 => (X' = X /\ y' = y /\ Gamma' = Gamma /\ alpha' = alpha)]_vars

\* the vector verifier has returned after storing perturbed components that
\* differ from the caller's
NoInPlaceMutationWitness ==
    /\ nb = 5 /\ pc = "done" /\ out.fn = "verify_loocv_opt_p" /\ out.k = "returned"
    /\ alpha.type = "ndarray"
    /\ \A i \in 1..Len(alpha.v) : ~REq(Perturbed(alpha.v[i], delta_x), alpha.v[i])
    /\ VerifyStores(Called(alpha.v), alpha.v, 1).store["alpha_copy"] # alpha.v

\* fit_ridge_regression was called last
FitCalled == nb = 5 /\ pc \in {"done", "failed"} /\ out.fn = "fit_ridge_regression"
\* b solves (X^T X + diag(a)) b = X^T y
SolvesRidgeSystem(b, a) ==
    \A i \in 1..Len(a) :
        REq(MatVec(RegularizedGram(RMat(X), Diag(a), Len(a)), b)[i],
            TMatVec(RMat(X), RVec(y), Len(a))[i])
\* the end of the call with the vector (alpha, ..., alpha) in place of the
\* number alpha
FitOfRepeated ==
    fit_ridge_regression(RMat(X), RVec(y),
                         [type |-> "ndarray", v |-> Ones(Len(X[1]), alpha.v)])
\* what the call ended with
FitOutcome == [k |-> out.k, args |-> out.args]

\* C15: fit_ridge_regression with a single number alpha ends as the call
\* with the vector (alpha, ..., alpha) does, whatever the runtime type of the
\* number; with a per-feature vector, the coefficients it returns solve
\* (X^T X + diag(alpha)) b = X^T y.
ScalarVectorDispatch ==
    FitCalled =>
        /\ alpha.type # "ndarray" => FitOutcome = FitOfRepeated
        /\ (alpha.type = "ndarray" /\ out.k = "returned") =>
              SolvesRidgeSystem(out.args[1], alpha.v)

\* the same for numbers whose runtime type is float; a Python int is passed
\* to np.diag as it is, which raises ValueError
ScalarVectorDispatchOfFloats ==
    FitCalled =>
        /\ alpha.type = "float" => FitOutcome = FitOfRepeated
        /\ alpha.type = "int" => out.k = "ValueError"
        /\ (alpha.type = "ndarray" /\ out.k = "returned") =>
              SolvesRidgeSystem(out.args[1], alpha.v)

ScalarVectorDispatchWitness ==
    /\ FitCalled /\ alpha.type = "float" /\ out.k = "returned"
    /\ RSign(alpha.v) > 0
    /\ SolvesRidgeSystem(out.args[1], Ones(Len(X[1]), alpha.v))

\* alpha = 1, a Python int: the vector (1, 1) has coefficients, the call
\* raises
IntAlphaRaises ==
    /\ FitCalled /\ alpha.type = "int"
    /\ out.k = "ValueError"
    /\ FitOfRepeated.k = "returned"

\* the leverages of the efficient estimator that was called last, for a
\* regularized matrix that np.linalg.inv inverts
LeverageOfCall == Leverage(RMat(X), inv(SystemsOf(out.fn)[1]))
\* an efficient estimator was called and inverted its matrix with some h_i = 1
UnitLeverage ==
    /\ CallFinished /\ out.fn \in {"compute_loocv", "compute_loocv_efficient"}
    /\ ~Singular(SystemsOf(out.fn)[1])
    /\ \E i \in 1..Len(y) : REq(LeverageOfCall[i], ROne)

\* C16: when some h_i equals 1 the efficient estimator raises nothing: the
\* call returns, and the score it returns is the infinity or the nan of the
\* division by 1 - h_i = 0.
UnguardedLeverage ==
    UnitLeverage =>
        /\ out.k = "returned" /\ pc = "done"
        /\ out.args[1].k \in {"inf", "nan"}

\* D = 0 and as many independent rows as features: every row is fit exactly
UnguardedLeverageWitness ==
    /\ UnitLeverage /\ out.fn = "compute_loocv"
    /\ alpha.type = "float" /\ RSign(alpha.v) = 0
    /\ Len(y) = 2 /\ \A i \in 1..Len(y) : REq(LeverageOfCall[i], ROne)
    /\ out.k = "returned" /\ out.args[1].k \in {"inf", "nan"}

\* the part of the first run's trial data the second run has generated
SameTrialsSoFar ==
    /\ Len(simulation_data) <= Len(first_run[1].simulation_data)
    /\ \A j \in 1..Len(simulation_data) :
          simulation_data[j] = first_run[1].simulation_data[j]
    /\ pc = "generate_loop" =>
          \A k \in 1..Len(trials) :
              trials[k] = first_run[1].simulation_data[Len(simulation_data) + 1][k]

\* C18: a second run of the notebook with the same seed, parameters and
\* parameter files generates the same data for every trial index as the
\* first, whatever state the generator was in before the seed was set, and
\* ends as the first did: the same verification outcome, the same errors and
\* the same simulation results.
Determinism ==
    (nb = 6 /\ Len(first_run) > 0) =>
        /\ pc # "parameters" => SameTrialsSoFar
        /\ pc \in {"done", "failed"} => RunOutcome = first_run[1]

\* a second complete run over two sizes of two trials
DeterminismWitness ==
    /\ nb = 6 /\ Len(first_run) > 0 /\ pc = "done"
    /\ Len(train_sizes) = 2 /\ N = 2
    /\ RunOutcome = first_run[1]
    /\ Len(simulation_results["LS"].mean) = 2

(***************************************************************************)
(* Properties of the LOOCV notebooks: the work the estimators do.          *)
(***************************************************************************)
\* the brute-force and the efficient result of the notebook at hand
BruteForceOut == IF nb = 1 THEN out.slow ELSE out.bf
EfficientOut == IF nb = 1 THEN out.fast ELSE out.eff
\* the iterations of the brute-force call on the notebook's data
IterationsRun ==
    BruteForceIterations(RMat(X), RVec(y), GammaSquared(Gamma), Len(Gamma), 1)
\* X^T X + Gamma^T Gamma less the contribution x_i x_i^T of row i, and
\* X^T y less x_i y_i: the system of all rows except row i
LessRow(A, i) ==
    SeqOf(LAMBDA r : SeqOf(LAMBDA c :
              RSub(A[r][c], RMul(RFromInt(X[i][r]), RFromInt(X[i][c]))), Len(A)), Len(A))
SystemWithout(i) == LessRow(SystemOf(GammaSquared(Gamma)), i)
LessTarget(v, i) ==
    SeqOf(LAMBDA r : RSub(v[r], RMul(RFromInt(X[i][r]), RFromInt(y[i]))), Len(v))
MomentsWithout(i) == LessTarget(TMatVec(RMat(X), RVec(y), Len(Gamma)), i)
\* the squared error of predicting y_i from x_i with the coefficients of
\* that system
HeldOutError(i) ==
    SquaredError(RFromInt(y[i]),
                 Dot(RVec(X[i]), MatVec(inv(SystemWithout(i)), MomentsWithout(i))))
SameMatrix(A, B) ==
    \A r \in 1..Len(A) : \A c \in 1..Len(A) : REq(A[r][c], B[r][c])
\* the iteration it held out row k, inverted the system of the other rows
\* and added the error of predicting y_k from row k
IterationHoldsOut(it, k) ==
    /\ it.i = k
    /\ SameMatrix(it.inverted, SystemWithout(k))
    /\ IsNum(it.term) => FEq(it.term, HeldOutError(k))
\* the sum of the terms of the iterations
SumOfTerms(its) == FSum(SeqOf(LAMBDA k : its[k].term, Len(its)))
\* what a brute-force call that ended with r did in the iterations its
RefitCountsOf(its, r) ==
    /\ Len(its) <= Len(y)
    /\ \A k \in 1..Len(its) : IterationHoldsOut(its[k], k)
    /\ IsNum(r) =>
          /\ Len(its) = Len(y)
          /\ FEq(r, IF nb = 1 THEN SumOfTerms(its)
                    ELSE FScale(SumOfTerms(its), RFromInt(Len(y))))
    /\ Raised(r) =>
          /\ Raised(its[Len(its)].term)
          /\ \A k \in 1..(Len(its) - 1) : IsNum(its[k].term)

ComponentsVerified == IF alpha.type = "float" THEN <<alpha.v>> ELSE alpha.v
\* the end of the scalar verifier's loop when the score is evaluated at the
\* points lower and upper
ScalarOutcomeAt(lower, upper) ==
    VerifyFrom(RMat(X), RVec(y), Score(<<alpha.v, alpha.v>>),
               <<Diag(<<lower, lower>>), Diag(<<upper, upper>>)>>)
\* the points for the component a are |a - delta| and |a + delta|, not
\* negative; below delta the lower one is delta - a
ReflectedPair(pair, a) ==
    /\ Len(pair) = 2
    /\ REq(pair[1], IF RLt(a, OneThousandth) THEN RSub(OneThousandth, a)
                    ELSE RSub(a, OneThousandth))
    /\ REq(pair[2], IF RLt(a, RNeg(OneThousandth)) THEN RNeg(RAdd(a, OneThousandth))
                    ELSE RAdd(a, OneThousandth))
    /\ RSign(pair[1]) >= 0 /\ RSign(pair[2]) >= 0

\* C20: the values at which a verifier evaluates the score beside alpha are
\* |alpha_i - delta| and |alpha_i + delta| for each component, none of them
\* negative; a downward step from alpha_i < delta is evaluated at
\* delta - alpha_i; and the scalar verifier ends as the evaluation at these
\* two points makes it end.
NonNegativeEvaluationPoints ==
    Finished =>
        /\ \A i \in 1..Len(ComponentsVerified) :
              ReflectedPair(PerturbedPair(ComponentsVerified[i]), ComponentsVerified[i])
        /\ alpha.type = "float" =>
              [k |-> out.k, args |-> out.args]
                  = ScalarOutcomeAt(Moved(alpha.v, RNeg(OneThousandth)),
                                    Moved(alpha.v, OneThousandth))

\* the vector verifier returned for a parameter with a component 0, whose
\* downward step was evaluated at delta
NonNegativeEvaluationPointsWitness ==
    /\ Finished /\ alpha.type = "ndarray" /\ out.k = "returned"
    /\ RSign(alpha.v[1]) = 0
    /\ REq(PerturbedPair(alpha.v[1])[1], OneThousandth)
    /\ ~REq(PerturbedPair(alpha.v[1])[1], RAdd(alpha.v[1], RNeg(OneThousandth)))

(***************************************************************************)
(* Properties of the rotation notebook: the rotation matrix.                *)
(***************************************************************************)
Transposed(R) == SeqOf(LAMBDA i : SeqOf(LAMBDA j : R[j][i], Len(R)), Len(R))
\* R^T R = I
IsOrthogonal(R) == IsIdentity(MatMul(Transposed(R), R, Len(R)))
\* the rotation by t of the coordinates i and i + 1 of n, written out: the
\* identity outside the rows and columns i and i + 1, and there
\* [[cos, -sin], [sin, cos]]
IsPlanarRotation(G, n, i, t) ==
    /\ Len(G) = n
    /\ \A r \in 1..n : Len(G[r]) = n
    /\ \A r \in 1..n : \A c \in 1..n :
          (r \notin {i, i + 1} \/ c \notin {i, i + 1}) =>
              REq(G[r][c], IF r = c THEN ROne ELSE RZero)
    /\ REq(G[i][i], Cos(t)) /\ REq(G[i + 1][i + 1], Cos(t))
    /\ REq(G[i][i + 1], RNeg(Sin(t))) /\ REq(G[i + 1][i], Sin(t))
\* G_1 (G_2 (... G_{n-1})) for G_i the rotation of the coordinates i, i + 1
\* by thetas[i]
RECURSIVE PlanarProductFrom(_, _, _)
PlanarProductFrom(n, thetas, i) ==
    IF i > n - 1 THEN ScaledIdentity(n, ROne)
    ELSE MatMul(Rotation(n, i, thetas[i]), PlanarProductFrom(n, thetas, i + 1), n)
\* R is that product for the angles thetas
IsProductOfRotations(R, n, thetas) ==
    /\ \A i \in 1..(n - 1) : IsPlanarRotation(Rotation(n, i, thetas[i]), n, i, thetas[i])
    /\ SameMatrix(R, PlanarProductFrom(n, thetas, 1))
\* the rotation cell has run
RotationGenerated == nb = 3 /\ pc # "rotation"

\* C21: the matrix generate_rotation_matrix(n) returns is the product, in
\* the order i = 0 .. n-2, of n - 1 planar rotations, the i-th of the
\* coordinates i and i + 1 only; it is orthogonal with determinant +1, and
\* for n = 1 it is the 1 x 1 identity.
RotationMatrixConstruction ==
    RotationGenerated =>
        /\ Len(rotation_matrix) = Len(y)
        /\ \E thetas \in [1..(Len(y) - 1) -> Thetas] :
              IsProductOfRotations(rotation_matrix, Len(y), thetas)
        /\ IsOrthogonal(rotation_matrix)
        /\ REq(Det(rotation_matrix), ROne)
        /\ Len(y) = 1 => rotation_matrix = <<<<ROne>>>>

\* a product of two rotations of three coordinates that is not diagonal
RotationMatrixConstructionWitness ==
    /\ RotationGenerated /\ Len(y) = 3
    /\ ~IsDiagonal(rotation_matrix)
    /\ RSign(rotation_matrix[1][3]) # 0
    /\ IsOrthogonal(rotation_matrix)
    /\ REq(Det(rotation_matrix), ROne)

(***************************************************************************)
(* Properties of the calls: the verified and the fitted model.             *)
(***************************************************************************)
\* the matrix fit_ridge_regression adds to X^T X for the caller's alpha
FittedRegularization ==
    FitDiag(FitStores(Called(alpha.v), alpha, Len(X[1])))
\* the matrix the verifier of the caller's alpha passes to compute_loocv at
\* the unperturbed point: of verify_loocv_opt_1 for a number, and of
\* verify_loocv_opt_p, for its component i, for a vector
VerifiedRegularization(i) ==
    IF alpha.type = "ndarray" THEN DiagWith(alpha.v, i, alpha.v[i])
    ELSE ScaledIdentity(Len(X[1]), alpha.v)
\* b solves (X^T X + D) b = X^T y
SolvesSystemWith(b, D) ==
    \A i \in 1..Len(D) :
        REq(MatVec(RegularizedGram(RMat(X), D, Len(D)), b)[i],
            TMatVec(RMat(X), RVec(y), Len(D))[i])

Verifiers == {"verify_loocv_opt_1", "verify_loocv_opt_p"}
\* the index of the trial of the verifier call made last
VerifiedIndex == TrialAt(<<at[1], at[2]>>)[1]
\* a verifier call has ended, by returning or by raising
VerifierCalled ==
    /\ nb = 6 /\ at # << >> /\ out.fn \in Verifiers
    /\ pc \in {"verify", "failed"}
\* both verifiers return for every trial of the run
EveryTrialVerifies ==
    \A q \in Positions :
        /\ verify_loocv_opt_1(RMat(TrialAt(q)[2][1]), RVec(TrialAt(q)[2][2]),
                              Row(rr1_params, TrialAt(q)[1])).k = "returned"
        /\ verify_loocv_opt_p(RMat(TrialAt(q)[2][1]), RVec(TrialAt(q)[2][2]),
                              Row(rrp_params, TrialAt(q)[1])).k = "returned"
\* a run that a verifier ended has fitted and aggregated nothing, and there
\* are statistics only in a run all of whose trials pass both verifiers
HaltedBeforeSimulation ==
    nb = 6 =>
        /\ (pc = "failed" /\ out.fn \in Verifiers) =>
              /\ out.k # "returned"
              /\ simulation_results = << >> /\ errors = << >>
        /\ simulation_results # << >> => EveryTrialVerifies
\* a step that calls a verifier calls the scalar one for trial 0 first, the
\* per-feature one for the same trial after the scalar one, and the scalar
\* one for the next index after the per-feature one; and it is taken only
\* after a call that returned
VerifiedInOrder ==
    (VerifierCalled' /\ at' # at) =>
        /\ pc = "verify"
        /\ at = << >> => (VerifiedIndex' = 0 /\ out'.fn = "verify_loocv_opt_1")
        /\ at # << >> =>
              /\ out.k = "returned"
              /\ out.fn = "verify_loocv_opt_1" =>
                    (VerifiedIndex' = VerifiedIndex /\ out'.fn = "verify_loocv_opt_p")
              /\ out.fn = "verify_loocv_opt_p" =>
                    (VerifiedIndex' = VerifiedIndex + 1 /\ out'.fn = "verify_loocv_opt_1")
\* the only step from a failed run is the start of another run
NothingAfterFailure ==
    (nb = 6 /\ pc = "failed") => (pc' = "parameters" /\ Len(first_run') = Len(first_run) + 1)

\* C23: trials are verified in the order of their indices, the scalar
\* parameter of a trial before its per-feature parameter; the first call
\* that raises ends the run, with no later verification, no fit and no
\* statistics; and statistics exist only in runs whose every trial passed
\* both verifications.
VerificationOrderAndHalt ==
    /\ []HaltedBeforeSimulation
    /\ [][VerifiedInOrder /\ NothingAfterFailure]_vars

\* a verifier raised after the first trials had passed and before the last
\* trial had been verified
VerificationOrderAndHaltWitness ==
    /\ VerifierCalled /\ pc = "failed" /\ out.k = "AssertionError"
    /\ 0 < VerifiedIndex /\ VerifiedIndex < Len(train_sizes) * N - 1
    /\ simulation_results = << >>
=============================================================================
